---------------------------- MODULE MessageProofs ----------------------------
(***************************************************************************)
(* Theorems about MessageReport and ReportView, for any message, any       *)
(* configuration and any block lists: which verdicts count and that none   *)
(* is taken back, what an A takes, whose connection the TLS fallback       *)
(* speaks of, that a listing never pays and that a body cut short never    *)
(* costs more than one that does not match; and that colours, badges,      *)
(* action and sentence of the page agree with the report.                  *)
(*                                                                         *)
(* The invariants follow a message through its stages, one for each        *)
(* question: AuthTypeOK and HopInv for the verdicts, TLSInv and PathInv    *)
(* for the entry, BlockInv for the lists, CardsInv for the categories.     *)
(***************************************************************************)
EXTENDS ReportView, SequenceTheorems, FiniteSetTheorems, WellFoundedInduction, TLAPS

-----------------------------------------------------------------------------
(* Loops and searches.  The induction theorems of the library take an      *)
(* operator as a parameter; these follow from WFMin, which does not.       *)

\* A set of numbers that is not empty has a least one.
LEMMA Least ==
  ASSUME NEW S \in SUBSET Nat, S # {}
  PROVE  \E k \in S : \A j \in S : k <= j
<1>1. PICK k \in S : \A j \in S : ~(<<j, k>> \in OpToRel(<, Nat))
  BY NatLessThanWellFounded, WFMin
<1>2. \A j \in Nat : j < k => <<j, k>> \in OpToRel(<, Nat)
  BY Zenon DEF OpToRel
<1>3. \A j \in S : ~(j < k)
  BY <1>1, <1>2
<1>4. \A j \in S : k <= j
  BY <1>3
<1> QED
  BY <1>4

\* Induction over the numbers, for a set of them.
LEMMA SetInduction ==
  ASSUME NEW S, 0 \in S, \A n \in Nat : n \in S => n + 1 \in S
  PROVE  Nat \subseteq S
<1> DEFINE T == {n \in Nat : n \notin S}
<1> SUFFICES ASSUME T # {} PROVE FALSE
  OBVIOUS
<1>1. PICK x \in T : \A y \in T : ~(<<y, x>> \in OpToRel(<, Nat))
  BY NatLessThanWellFounded, WFMin
<1>2. \A y \in Nat : y < x => <<y, x>> \in OpToRel(<, Nat)
  BY Zenon DEF OpToRel
<1>3. \A y \in T : ~(y < x)
  BY <1>1, <1>2
<1>4. x # 0 /\ x - 1 \in Nat /\ x - 1 < x
  OBVIOUS
<1>5. x - 1 \in S
  BY <1>3, <1>4
<1> QED
  BY <1>4, <1>5

\* The values of a loop that starts with v0 and turns a value into the next by
\* step[i] ...
IsTrace(g, n, v0, step) == g[0] = v0 /\ \A i \in 1 .. n : g[i] = step[i][g[i - 1]]

\* ... exist.
LEMMA Trace ==
  ASSUME NEW V, NEW v0 \in V, NEW step \in [Nat -> [V -> V]]
  PROVE  \A n \in Nat : \E g \in [0 .. n -> V] : IsTrace(g, n, v0, step)
<1> DEFINE S == {n \in Nat : \E g \in [0 .. n -> V] : IsTrace(g, n, v0, step)}
<1> USE DEF IsTrace
<1>1. 0 \in S
  <2> DEFINE g == [i \in 0 .. 0 |-> v0]
  <2>1. g \in [0 .. 0 -> V] /\ IsTrace(g, 0, v0, step)
    OBVIOUS
  <2> QED
    BY <2>1
<1>2. ASSUME NEW n \in Nat, n \in S PROVE n + 1 \in S
  <2>1. PICK g \in [0 .. n -> V] : IsTrace(g, n, v0, step)
    BY <1>2
  <2> DEFINE h == [i \in 0 .. n + 1 |-> IF i = n + 1 THEN step[i][g[i - 1]] ELSE g[i]]
  <2>2. step[n + 1][g[n]] \in V
    OBVIOUS
  <2>3. h \in [0 .. n + 1 -> V]
    BY <2>2
  <2>4. IsTrace(h, n + 1, v0, step)
    BY <2>1
  <2> HIDE DEF h
  <2>5. \E k \in [0 .. n + 1 -> V] : IsTrace(k, n + 1, v0, step)
    BY <2>3, <2>4
  <2> QED
    BY <2>5
<1> HIDE DEF S
<1>3. Nat \subseteq S
  BY <1>1, <1>2, SetInduction
<1> QED
  BY <1>3 DEF S

-----------------------------------------------------------------------------
(* An A takes four methods                                                 *)

LEMMA SPFPoints ==
  ASSUME NEW r
  PROVE  /\ CalculateSPFScore(r) \in {0, 17, 50, 100}
         /\ CalculateSPFScore(r) = 100 => r.spf # None /\ r.spf.result = "pass"
BY DEF CalculateSPFScore

LEMMA DKIMPoints ==
  ASSUME NEW r
  PROVE  /\ CalculateDKIMScore(r) \in {0, 20, 90, 100}
         /\ CalculateDKIMScore(r) > 20 => \E k \in DOMAIN r.dkim : r.dkim[k].result = "pass"
<1> DEFINE passes == {k \in DOMAIN r.dkim : r.dkim[k].result = "pass"}
<1>1. CASE r.dkim = << >>
  BY <1>1 DEF CalculateDKIMScore
<1>2. CASE r.dkim # << >> /\ passes = {}
  BY <1>2 DEF CalculateDKIMScore
<1>3. CASE r.dkim # << >> /\ passes # {}
  <2>1. CalculateDKIMScore(r) \in {90, 100}
    BY <1>3 DEF CalculateDKIMScore
  <2> QED
    BY <1>3, <2>1
<1> QED
  BY <1>1, <1>2, <1>3

LEMMA DMARCPoints ==
  ASSUME NEW r
  PROVE  /\ CalculateDMARCScore(r) \in {0, 33, 100}
         /\ CalculateDMARCScore(r) = 100 => r.first["dmarc"] = "pass"
BY DEF CalculateDMARCScore

LEMMA BIMIPoints ==
  ASSUME NEW r
  PROVE  /\ CalculateBIMIScore(r) \in {0, 59, 100}
         /\ CalculateBIMIScore(r) # 0 => r.first["bimi"] \in {"pass", "declined"}
BY DEF CalculateBIMIScore

LEMMA PenaltiesCost ==
  ASSUME NEW r
  PROVE  Penalties(r) \in Int /\ Penalties(r) <= 0
<1>1. CalculateSPFHeloScore(r) \in {-100, -50, 0}
  BY DEF CalculateSPFHeloScore
<1>2. Quo(5 * CalculateSPFHeloScore(r), 100) \in {-5, -2, 0}
  <2>1. CASE CalculateSPFHeloScore(r) = -100
    BY <2>1 DEF Quo
  <2>2. CASE CalculateSPFHeloScore(r) = -50
    BY <2>2 DEF Quo
  <2>3. CASE CalculateSPFHeloScore(r) = 0
    BY <2>3 DEF Quo
  <2> QED
    BY <1>1, <2>1, <2>2, <2>3
<1> QED
  BY <1>2 DEF Penalties

\* Whatever was found: of the 94 points left without one of the four, no method
\* makes up for another.
LEMMA EveryMethodIsNeeded ==
  ASSUME NEW r, AuthenticationPoints(r) >= 95
  PROVE  /\ CalculateSPFScore(r) = 100 /\ CalculateDKIMScore(r) > 20
         /\ CalculateDMARCScore(r) = 100 /\ CalculateBIMIScore(r) # 0
<1> DEFINE spf == CalculateSPFScore(r)
           dkim == CalculateDKIMScore(r)
           dmarc == CalculateDMARCScore(r)
           bimi == CalculateBIMIScore(r)
           cost == Penalties(r)
<1>1. AuthenticationPoints(r) =
        (30 * spf) \div 100 + (30 * dkim) \div 100 + (30 * dmarc) \div 100
          + (10 * bimi) \div 100 + cost
  BY DEF AuthenticationPoints
<1>2. spf \in {0, 17, 50, 100} /\ dkim \in {0, 20, 90, 100}
  BY SPFPoints, DKIMPoints
<1>3. dmarc \in {0, 33, 100} /\ bimi \in {0, 59, 100}
  BY DMARCPoints, BIMIPoints
<1>4. cost \in Int /\ cost <= 0
  BY PenaltiesCost
<1> HIDE DEF spf, dkim, dmarc, bimi, cost
<1>5. (30 * spf) \div 100 \in 0..30 /\ (spf # 100 => (30 * spf) \div 100 <= 15)
  BY <1>2
<1>6. (30 * dkim) \div 100 \in 0..30 /\ (dkim <= 20 => (30 * dkim) \div 100 <= 6)
  BY <1>2
<1>7. (30 * dmarc) \div 100 \in 0..30 /\ (dmarc # 100 => (30 * dmarc) \div 100 <= 9)
  BY <1>3
<1>8. (10 * bimi) \div 100 \in 0..10 /\ (bimi = 0 => (10 * bimi) \div 100 = 0)
  BY <1>3
<1>9. spf = 100 /\ dkim > 20 /\ dmarc = 100 /\ bimi # 0
  BY <1>1, <1>2, <1>3, <1>4, <1>5, <1>6, <1>7, <1>8
<1> QED
  BY <1>9 DEF spf, dkim, dmarc, bimi

\* For any results: an A in the category takes a pass of SPF, DKIM and DMARC and
\* a BIMI verdict (authentication.go:183-230).
THEOREM AnATakesFour == Spec => []GradeANeedsTheFour
<1>1. GradeANeedsTheFour
  <2> SUFFICES ASSUME Of(CalculateAuthenticationScore(results)) = "A"
               PROVE  /\ results.spf # None /\ results.spf.result = "pass"
                      /\ \E k \in DOMAIN results.dkim : results.dkim[k].result = "pass"
                      /\ results.first["dmarc"] = "pass"
                      /\ results.first["bimi"] \in {"pass", "declined"}
    BY DEF GradeANeedsTheFour
  <2>1. AuthenticationPoints(results) \in Int
    BY SPFPoints, DKIMPoints, DMARCPoints, BIMIPoints, PenaltiesCost DEF AuthenticationPoints
  <2>2. AuthenticationPoints(results) >= 95
    BY <2>1 DEF CalculateAuthenticationScore, Within, Of
  <2> QED
    BY <2>2, EveryMethodIsNeeded, SPFPoints, DKIMPoints, DMARCPoints, BIMIPoints
<1> QED
  BY <1>1, PTL

-----------------------------------------------------------------------------
(* No listing pays                                                         *)

LEMMA ListNumbers ==
  /\ Cardinality(Informational) \in Nat
  /\ \A lists \in Seq(Lists) : ScoringLists(lists, Informational) \in Int
<1>1. Cardinality(Informational) \in Nat
  <2>1. IsFiniteSet(Informational)
    BY ListAssumption
  <2> QED
    BY <2>1, FS_CardinalityType
<1> QED
  BY <1>1 DEF ScoringLists

LEMMA ShareGrows ==
  ASSUME NEW n \in Nat, n > 0, NEW a \in Nat, NEW b \in Nat, a <= b
  PROVE  /\ (a * 100) \div n \in Nat /\ (b * 100) \div n \in Nat
         /\ (a * 100) \div n <= (b * 100) \div n
<1>1. a * 100 \in Nat /\ b * 100 \in Nat /\ a * 100 <= b * 100
  OBVIOUS
<1>2. ASSUME NEW x \in Nat
      PROVE  /\ x \div n \in Nat
             /\ n * (x \div n) <= x
             /\ x < n * (x \div n) + n
  OBVIOUS
<1>3. ASSUME NEW p \in Nat, NEW q \in Nat, n * p < n * q + n
      PROVE  p <= q
  <2>1. n * q + n = n * (q + 1)
    OBVIOUS
  <2>2. n * p < n * (q + 1)
    BY <1>3, <2>1
  <2>3. ASSUME p >= q + 1 PROVE n * p >= n * (q + 1)
    BY <2>3
  <2> QED
    BY <2>2, <2>3
<1>4. n * ((a * 100) \div n) < n * ((b * 100) \div n) + n
  <2>1. /\ n * ((a * 100) \div n) <= a * 100
        /\ b * 100 < n * ((b * 100) \div n) + n
    BY <1>1, <1>2
  <2> QED
    BY <1>1, <1>2, <2>1
<1> QED
  BY <1>1, <1>2, <1>3, <1>4

\* One more listing, informational or not, on top of any others.
LEMMA OneMoreListing ==
  ASSUME NEW lists \in Seq(Lists), NEW checked \in Nat,
         NEW listed \in Nat, NEW relevant \in Nat, relevant <= listed,
         NEW more \in {relevant, relevant + 1}
  PROVE  CalculateListScore(lists, Informational, checked, listed + 1, more).score
           <= CalculateListScore(lists, Informational, checked, listed, relevant).score
<1> DEFINE n == ScoringLists(lists, Informational)
           share(m) == (m * 100) \div n
           flat(l, m) == IF l > m THEN 10 ELSE 0
           left(l, m) == 100 - share(m) - flat(l, m)
           bounded(s) == IF s < 0 THEN 0 ELSE s
<1>1. n \in Int
  BY ListNumbers
<1>2. more \in Nat /\ relevant <= more
  OBVIOUS
<1>3. CASE checked = 0 \/ n <= 0
  BY <1>3 DEF CalculateListScore
<1>4. CASE checked # 0 /\ n > 0
  <2>1. /\ share(relevant) \in Nat /\ share(more) \in Nat
        /\ share(relevant) <= share(more)
    <3>1. n \in Nat /\ n > 0
      BY <1>1, <1>4
    <3> HIDE DEF n
    <3> QED
      BY <1>2, <3>1, ShareGrows
  <2>2. CalculateListScore(lists, Informational, checked, listed + 1, more).score
          = bounded(left(listed + 1, more))
    BY <1>1, <1>4 DEF CalculateListScore
  <2>3. CalculateListScore(lists, Informational, checked, listed, relevant).score
          = IF listed = 0 THEN 100 ELSE bounded(left(listed, relevant))
    BY <1>1, <1>4 DEF CalculateListScore
  <2> HIDE DEF n, share
  <2>4. flat(listed, relevant) <= flat(listed + 1, more)
    BY <1>2
  <2>5. /\ left(listed, relevant) \in Int /\ left(listed + 1, more) \in Int
        /\ left(listed + 1, more) <= left(listed, relevant)
        /\ left(listed + 1, more) <= 100
    BY <2>1, <2>4
  <2> HIDE DEF left
  <2> QED
    BY <2>2, <2>3, <2>5
<1> QED
  BY <1>1, <1>3, <1>4

LEMMA ScoreIsNumber ==
  ASSUME NEW lists \in Seq(Lists), NEW checked \in Nat, NEW listed, NEW relevant \in Nat
  PROVE  CalculateListScore(lists, Informational, checked, listed, relevant).score \in Int
<1> DEFINE n == ScoringLists(lists, Informational)
           share == (relevant * 100) \div n
<1>1. n \in Int
  BY ListNumbers
<1>2. n > 0 => share \in Nat
  BY <1>1, ShareGrows
<1> HIDE DEF n, share
<1>3. CASE checked = 0 \/ listed = 0 \/ n <= 0
  BY <1>3 DEF CalculateListScore, n
<1>4. CASE checked # 0 /\ listed # 0 /\ n > 0
  <2>1. 100 - share - 10 \in Int /\ 100 - share - 0 \in Int
    BY <1>2, <1>4
  <2> QED
    BY <1>1, <1>4, <2>1 DEF CalculateListScore, n, share
<1> QED
  BY <1>1, <1>3, <1>4

\* What is counted on the way from list to list.
BlockInv ==
  /\ rbls \in Seq(Lists)
  /\ ips \in Nat
  /\ block \in Counting
  /\ block.relevant <= block.listed

LEMMA StepCounts ==
  ASSUME NEW c \in Counting, NEW lists, NEW informational, NEW all, NEW hit,
         Len(lists) \in Nat, ips \in Nat
  PROVE  LET next == Step(c, lists, informational, all, hit) IN
           /\ next \in Counting
           /\ \/ next.listed = c.listed /\ next.relevant = c.relevant
              \/ next.listed = c.listed + 1 /\ next.relevant \in {c.relevant, c.relevant + 1}
<1> DEFINE next == Step(c, lists, informational, all, hit)
<1>1. c.ip \in Nat \ {0} /\ c.list \in Nat \ {0} /\ c.listed \in Nat /\ c.relevant \in Nat
  BY DEF Counting
<1>2. next.ip \in Nat \ {0} /\ next.list \in Nat \ {0}
  BY <1>1 DEF Step
<1>3. \/ next.listed = c.listed /\ next.relevant = c.relevant
      \/ next.listed = c.listed + 1 /\ next.relevant \in {c.relevant, c.relevant + 1}
  BY <1>1 DEF Step
<1>4. next = [ip |-> next.ip, list |-> next.list, listed |-> next.listed,
              relevant |-> next.relevant]
  BY DEF Step
<1>5. next.listed \in Nat /\ next.relevant \in Nat
  BY <1>1, <1>3
<1>6. next \in Counting
  BY <1>2, <1>4, <1>5 DEF Counting
<1> QED
  BY <1>3, <1>6

\* Only CheckBlockLists asks a block list.
LEMMA ListStep ==
  ASSUME [Next]_vars
  PROVE  /\ UNCHANGED <<rbls, ips>>
         /\ \/ UNCHANGED block
            \/ stage = "blocklists" /\ AskBlockList(job.config.checkAllIPs)
<1>1. CASE AnalyzeAuthentication \/ GenerateHeaderAnalysis \/ FlagInboundHop \/ FallBackOnHops
  BY <1>1 DEF AnalyzeAuthentication, GenerateHeaderAnalysis, FlagInboundHop, FallBackOnHops,
     listVars
<1>2. CASE AnalyzeDNS \/ AnalyzeSpam \/ AnalyzeContent \/ GenerateReport \/ CheckBlacklistIP
  BY <1>2 DEF AnalyzeDNS, AnalyzeSpam, AnalyzeContent, GenerateReport, CheckBlacklistIP, listVars
<1>3. CASE CheckBlockLists
  BY <1>3 DEF CheckBlockLists, AskBlockList, listVars
<1>4. CASE CheckAllowLists
  BY <1>4 DEF CheckAllowLists, AskAllowList, listVars
<1>5. CASE LookUp
  BY <1>5 DEF LookUp, AnswerSlot
<1>6. CASE UNCHANGED vars
  BY <1>6 DEF vars, listVars
<1> QED
  BY <1>1, <1>2, <1>3, <1>4, <1>5, <1>6 DEF Next

LEMMA Asking ==
  ASSUME BlockInv, AskBlockList(job.config.checkAllIPs), job.config.checkAllIPs \in BOOLEAN
  PROVE  BlockInv' /\ BlacklistScore'.score <= BlacklistScore.score
<1>1. PICK found \in Answers :
        block' = Step(block, rbls, Informational, job.config.checkAllIPs, Listed(found, TRUE))
  BY DEF AskBlockList
<1>2. rbls' = rbls /\ ips' = ips
  BY DEF AskBlockList
<1>3. block \in Counting /\ rbls \in Seq(Lists) /\ ips \in Nat /\ block.relevant <= block.listed
  BY DEF BlockInv
<1>4. block.listed \in Nat /\ block.relevant \in Nat
  BY <1>3 DEF Counting
<1>5. Len(rbls) \in Nat /\ Listed(found, TRUE) \in BOOLEAN
  BY <1>3 DEF Listed
<1>6. /\ block' \in Counting
      /\ \/ block'.listed = block.listed /\ block'.relevant = block.relevant
         \/ /\ block'.listed = block.listed + 1
            /\ block'.relevant \in {block.relevant, block.relevant + 1}
  <2> DEFINE all == job.config.checkAllIPs
             hit == Listed(found, TRUE)
  <2>1. block' = Step(block, rbls, Informational, all, hit)
    BY <1>1
  <2> HIDE DEF all, hit
  <2> QED
    BY <1>3, <1>5, <2>1, StepCounts
<1>7. BlockInv'
  <2>1. block'.relevant <= block'.listed
    BY <1>3, <1>4, <1>6
  <2> QED
    BY <1>2, <1>3, <1>6, <2>1 DEF BlockInv
<1>8. BlacklistScore'.score =
        CalculateListScore(rbls, Informational, ips, block'.listed, block'.relevant).score
  BY <1>2 DEF BlacklistScore, CalculateListScore, ScoringLists
<1>9. BlacklistScore'.score <= BlacklistScore.score
  <2> DEFINE old == CalculateListScore(rbls, Informational, ips, block.listed, block.relevant).score
             new == CalculateListScore(rbls, Informational, ips, block'.listed, block'.relevant).score
  <2>1. BlacklistScore.score = old /\ BlacklistScore'.score = new
    BY <1>8, Zenon DEF BlacklistScore
  <2>2. old \in Int
    BY <1>3, <1>4, ScoreIsNumber
  <2>3. new <= old
    <3>1. CASE block'.listed = block.listed /\ block'.relevant = block.relevant
      <4>1. new = old
        BY <3>1
      <4> QED
        BY <2>2, <4>1
    <3>2. CASE /\ block'.listed = block.listed + 1
               /\ block'.relevant \in {block.relevant, block.relevant + 1}
      BY <1>3, <1>4, <3>2, OneMoreListing
    <3> QED
      BY <1>6, <3>1, <3>2
  <2> HIDE DEF old, new
  <2> QED
    BY <2>1, <2>3
<1> QED
  BY <1>7, <1>9

\* Only an analysis has a job, from its first stage to the last.
JobInv == job \in Analyses \/ (job = None /\ stage \in {"lookup", "done"})

LEMMA JobStep ==
  ASSUME [Next]_vars
  PROVE  /\ job' = job
         /\ stage \in {"lookup", "done"} => stage' \in {"lookup", "done"}
<1>1. CASE AnalyzeAuthentication \/ GenerateHeaderAnalysis \/ FlagInboundHop \/ FallBackOnHops
  BY <1>1 DEF AnalyzeAuthentication, GenerateHeaderAnalysis, FlagInboundHop, FallBackOnHops, Then
<1>2. CASE AnalyzeDNS \/ AnalyzeSpam \/ AnalyzeContent \/ GenerateReport \/ CheckBlacklistIP
  BY <1>2 DEF AnalyzeDNS, AnalyzeSpam, AnalyzeContent, GenerateReport, CheckBlacklistIP, Then
<1>3. CASE CheckBlockLists \/ CheckAllowLists \/ LookUp
  BY <1>3 DEF CheckBlockLists, CheckAllowLists, LookUp, Then
<1>4. CASE UNCHANGED vars
  BY <1>4 DEF vars, reportVars
<1> QED
  BY <1>1, <1>2, <1>3, <1>4 DEF Next

THEOREM Jobs == Spec => []JobInv
<1>1. Init => JobInv
  BY DEF Init, JobInv
<1>2. JobInv /\ [Next]_vars => JobInv'
  BY JobStep DEF JobInv
<1> QED
  BY <1>1, <1>2, PTL DEF Spec

\* The lists and the counts.
LEMMA ListInitial ==
  ASSUME Init
  PROVE  BlockInv
<1>1. Unasked \in Counting /\ Unasked.relevant <= Unasked.listed
  BY DEF Unasked, Counting
<1>2. CASE \E a \in Analyses : ListInit(a.config.rbls, a.message.ips)
  <2>1. PICK a \in Analyses : ListInit(a.config.rbls, a.message.ips)
    BY <1>2
  <2>2. a.config \in Configuration /\ a.message \in Message
    BY JobAssumption
  <2>3. a.config.rbls \in Seq(Lists)
    BY <2>2 DEF Configuration
  <2>4. a.message.ips \in Nat
    BY <2>2 DEF Message
  <2> QED
    BY <1>1, <2>1, <2>3, <2>4 DEF ListInit, BlockInv
<1>3. CASE \E lists \in Checks : ListInit(lists, 0)
  <2>1. PICK lists \in Checks : ListInit(lists, 0)
    BY <1>3
  <2>2. lists \in Seq(Lists)
    BY JobAssumption
  <2> QED
    BY <1>1, <2>1, <2>2 DEF ListInit, BlockInv
<1> QED
  BY <1>2, <1>3 DEF Init

LEMMA BlockStep ==
  ASSUME JobInv, BlockInv, [Next]_vars
  PROVE  BlockInv' /\ [BlacklistScore'.score <= BlacklistScore.score]_block
<1>1. CASE UNCHANGED block
  BY <1>1, ListStep DEF BlockInv
<1>2. CASE stage = "blocklists" /\ AskBlockList(job.config.checkAllIPs)
  <2>1. job \in Analyses
    BY <1>2 DEF JobInv
  <2>2. job.config \in Configuration
    BY <2>1, JobAssumption
  <2>3. job.config.checkAllIPs \in BOOLEAN
    BY <2>2 DEF Configuration
  <2> QED
    BY <1>2, <2>3, Asking
<1> QED
  BY <1>1, <1>2, ListStep

\* rbl.go:341-374 with rbl.go:151-176: with each answer of a block list the score
\* of the category goes down or stays, for any lists, configured and informational.
THEOREM NeverPays == Spec => ListingNeverPays
<1>1. Init => BlockInv
  BY ListInitial
<1>2. JobInv /\ BlockInv /\ [Next]_vars
        => BlockInv' /\ [BlacklistScore'.score <= BlacklistScore.score]_block
  BY BlockStep
<1> QED
  BY <1>1, <1>2, Jobs, PTL DEF Spec, ListingNeverPays

-----------------------------------------------------------------------------
(* A body cut short                                                        *)

LEMMA BodyNumbers ==
  ASSUME NEW c \in Content
  PROVE  BodyPoints(c) \in Int
<1>1. /\ c.links \in Nat /\ c.broken \in Nat /\ c.images \in Nat /\ c.undescribed \in Nat
  BY DEF Content
<1>2. c.links # 0 => (20 * (c.links - c.broken)) \div c.links \in Int
  BY <1>1
<1>3. (15 * c.undescribed) \div Larger(c.images, 5) \in Int
  <2>1. Larger(c.images, 5) \in Nat /\ Larger(c.images, 5) > 0
    BY <1>1 DEF Larger
  <2> QED
    BY <1>1, <2>1
<1> DEFINE links == IF c.links = 0 THEN 25
             ELSE (20 * (c.links - c.broken)) \div c.links - (IF c.links > 30 THEN 10 ELSE 0)
           images == IF c.images = 0 THEN 15 ELSE 15 - (15 * c.undescribed) \div Larger(c.images, 5)
           ratio == CASE c.ratio = "low" -> 15 [] c.ratio = "middle" -> 7 [] OTHER -> 0
<1>4. links \in Int
  BY <1>1, <1>2
<1>5. images \in Int
  BY <1>1, <1>3
<1>6. ratio \in Int
  OBVIOUS
<1>7. BodyPoints(c) =
        10 + (IF c.htmlValid \/ (~c.multipart /\ c.plaintext) THEN 10 ELSE 0)
           + (IF c.plaintext THEN 10 ELSE 0) + links + images + ratio
  BY DEF BodyPoints
<1> HIDE DEF links, images, ratio
<1> QED
  BY <1>4, <1>5, <1>6, <1>7

\* content.go:1122-1125: for any findings, those of a body cut short are worth as
\* much as those of a whole body whose text does not match, or more.
THEOREM TruncationIsNoFailure == Spec => []TruncatedBodyIsNotAFailure
<1>1. JobInv => TruncatedBodyIsNotAFailure
  <2> SUFFICES ASSUME JobInv, job # None
               PROVE  LET c == message.content IN
                        CalculateContentScore([c EXCEPT !.truncated = TRUE]) >=
                          CalculateContentScore([c EXCEPT !.truncated = FALSE, !.consistent = FALSE])
    BY DEF TruncatedBodyIsNotAFailure
  <2> DEFINE c == message.content
             cut == [c EXCEPT !.truncated = TRUE]
             whole == [c EXCEPT !.truncated = FALSE, !.consistent = FALSE]
             penalty == Smaller(c.suspicious, 5) + Smaller(20 * c.harmful, 40)
             points == BodyPoints(c)
  <2>1. c \in Content
    <3>1. job.message \in Message
      BY JobAssumption DEF JobInv
    <3> QED
      BY <3>1 DEF Message, message
  <2>2. points \in Int
    BY <2>1, BodyNumbers
  <2>3. penalty \in Nat
    BY <2>1 DEF Smaller, Content
  <2>4. /\ Judged(cut) = (points * 100) \div 85
        /\ Judged(whole) = points
    <3>1. BodyPoints(cut) = points /\ BodyPoints(whole) = points
      BY <2>1 DEF BodyPoints, Content
    <3>2. cut.truncated = TRUE /\ whole.truncated = FALSE /\ whole.consistent = FALSE
      BY <2>1 DEF Content
    <3> HIDE DEF cut, whole, points
    <3> QED
      BY <2>2, <3>1, <3>2 DEF Judged
  <2>5. /\ CalculateContentScore(cut) = LET s == Judged(cut) - penalty IN
                                          IF s < 0 THEN 0 ELSE IF s > 100 THEN 100 ELSE s
        /\ CalculateContentScore(whole) = LET s == Judged(whole) - penalty IN
                                            IF s < 0 THEN 0 ELSE IF s > 100 THEN 100 ELSE s
    <3>1. /\ cut.suspicious = c.suspicious /\ cut.harmful = c.harmful
          /\ whole.suspicious = c.suspicious /\ whole.harmful = c.harmful
      BY <2>1 DEF Content
    <3>2. Smaller(c.suspicious, 5) \in Nat /\ Smaller(20 * c.harmful, 40) \in Nat
      BY <2>1 DEF Smaller, Content
    <3>3. Judged(cut) \in Int /\ Judged(whole) \in Int
      BY <2>2, <2>4
    <3> HIDE DEF cut, whole, points, c
    <3> QED
      BY <3>1, <3>2, <3>3 DEF CalculateContentScore
  <2>6. /\ (points * 100) \div 85 \in Int
        /\ points >= 0 => (points * 100) \div 85 >= points
    BY <2>2
  <2> HIDE DEF cut, whole, points, penalty
  <2>7. CalculateContentScore(cut) >= CalculateContentScore(whole)
    BY <2>2, <2>3, <2>4, <2>5, <2>6
  <2> QED
    BY <2>7 DEF cut, whole
<1> QED
  BY <1>1, Jobs, PTL

-----------------------------------------------------------------------------
(* The TLS fallback                                                        *)

\* A field that counts says something of the connection.
Said ==
  \E k \in DOMAIN fields : Trusted(fields[k]) /\ FirstResult(fields[k], "x-tls") # None

Shape(r) ==
  r = [spf |-> r.spf, spfHelo |-> r.spfHelo, dkim |-> r.dkim,
       first |-> [m \in FirstOnly |-> r.first[m]]]

\* Until the fallback nobody has a verdict that no field gave; after it, it is
\* about the hop flagged as the entry, which for a message we received is the
\* topmost one.
BeforeFallback == {"fields", "headers", "hop", "tls", "lookup"}
TLSInv ==
  /\ fields \in Seq(Field) /\ position \in Nat \ {0}
  /\ Shape(results)
  /\ stage \in BeforeFallback => (results.first["x-tls"] # None => Said)
  /\ stage = "tls" =>
       inbound = InboundHopIndex(message.chain, message.source)
  /\ TLSIsOfTheEntry

\* The hop of a message we received is the topmost one.
LEMMA EntryOfReceived ==
  ASSUME NEW chain
  PROVE  ReconciledTLS(chain) # None =>
           /\ InboundHopIndex(chain, "received") = 1
           /\ ReconciledTLS(chain) = ReconciledTLS(<<chain[1]>>)
BY DEF ReconciledTLS, InboundHopIndex

LEMMA TLSInitial ==
  ASSUME Init
  PROVE  TLSInv
<1>1. position = 1 /\ results = NoVerdicts
  BY DEF Init, AuthInit
<1>2. fields \in Seq(Field)
  <2>1. CASE \E a \in Analyses : AuthInit(a.config.receiver, a.message.source, a.message)
    <3>1. PICK a \in Analyses : fields = a.message.fields
      BY <2>1 DEF AuthInit
    <3>2. a.message \in Message
      BY JobAssumption
    <3> QED
      BY <3>1, <3>2 DEF Message
  <2>2. CASE AuthInit(None, "received", Quiet)
    BY <2>2 DEF AuthInit, Quiet
  <2> QED
    BY <2>1, <2>2 DEF Init
<1>3. stage \in {"fields", "lookup"}
  BY DEF Init
<1>4. results.first["x-tls"] = None
  BY <1>1 DEF NoVerdicts, FirstOnly
<1>5. Shape(results)
  BY <1>1 DEF NoVerdicts, Shape
<1>6. TLSIsOfTheEntry
  BY <1>4 DEF TLSIsOfTheEntry
<1> QED
  BY <1>1, <1>2, <1>3, <1>4, <1>5, <1>6 DEF TLSInv

\* A step of the verdicts keeps their shape, and takes the TLS verdict from a
\* field that counts or leaves it.
LEMMA FieldStep ==
  ASSUME TLSInv, ReadField \/ FinishAuthentication
  PROVE  /\ fields' = fields /\ authority' = authority
         /\ position' \in Nat \ {0}
         /\ Shape(results')
         /\ results'.first["x-tls"] = results.first["x-tls"] \/ Said
<1>1. fields \in Seq(Field) /\ position \in Nat \ {0} /\ Shape(results)
  BY DEF TLSInv
<1>2. CASE ReadField
  <2>1. position \in DOMAIN fields
    BY <1>1, <1>2 DEF ReadField
  <2>2. CASE Trusted(fields[position])
    <3>1. results' = ParseAuthenticationResultsHeader(fields[position])
      BY <1>2, <2>2 DEF ReadField
    <3>2. Shape(results')
      BY <3>1 DEF Shape, ParseAuthenticationResultsHeader
    <3>3. results'.first["x-tls"]
            = Keep(results.first["x-tls"], FirstResult(fields[position], "x-tls"))
      BY <3>1 DEF ParseAuthenticationResultsHeader, FirstOnly
    <3>4. results'.first["x-tls"] = results.first["x-tls"] \/ Said
      <4>1. CASE FirstResult(fields[position], "x-tls") # None
        BY <2>1, <2>2, <4>1 DEF Said
      <4>2. CASE FirstResult(fields[position], "x-tls") = None
        BY <3>3, <4>2 DEF Keep
      <4> QED
        BY <4>1, <4>2
    <3> QED
      BY <1>1, <1>2, <3>2, <3>4 DEF ReadField
  <2>3. CASE ~Trusted(fields[position])
    BY <1>1, <1>2, <2>3 DEF ReadField
  <2> QED
    BY <2>2, <2>3
<1>3. CASE FinishAuthentication
  <2>1. Shape(WithLegacySPF(results))
        /\ WithLegacySPF(results).first = results.first
    <3>1. CASE results.spf # None
      BY <1>1, <3>1 DEF WithLegacySPF
    <3>2. CASE results.spf = None
      <4>1. results.first = [m \in FirstOnly |-> results.first[m]]
        BY <1>1 DEF Shape
      <4> QED
        BY <3>2, <4>1 DEF WithLegacySPF, Shape
    <3> QED
      BY <3>1, <3>2
  <2>2. results' = [WithLegacySPF(results) EXCEPT !.first["arc"] = Keep(@, ParseARCHeaders(arcSets))]
    BY <1>3 DEF FinishAuthentication
  <2>3. Shape(results') /\ results'.first["x-tls"] = results.first["x-tls"]
    BY <2>1, <2>2 DEF Shape, FirstOnly
  <2> QED
    BY <1>1, <1>3, <2>3 DEF FinishAuthentication
<1> QED
  BY <1>2, <1>3

LEMMA TLSStep ==
  ASSUME TLSInv, [Next]_vars
  PROVE  TLSInv'
<1>1. job' = job
  BY JobStep
<1>2. /\ fields \in Seq(Field) /\ position \in Nat \ {0} /\ Shape(results)
      /\ stage \in BeforeFallback => (results.first["x-tls"] # None => Said)
      /\ stage = "tls" =>
           inbound = InboundHopIndex(message.chain, message.source)
      /\ TLSIsOfTheEntry
  BY DEF TLSInv
<1>3. CASE AnalyzeAuthentication
  <2>1. stage = "fields" /\ stage' \in {"fields", "headers"} /\ inbound' = inbound
    BY <1>3 DEF AnalyzeAuthentication, Then
  <2>2. /\ fields' = fields /\ authority' = authority
        /\ position' \in Nat \ {0}
        /\ Shape(results')
        /\ results'.first["x-tls"] = results.first["x-tls"] \/ Said
    BY <1>3, FieldStep DEF AnalyzeAuthentication
  <2>3. Said' <=> Said
    BY <2>2 DEF Said, Trusted, Readable
  <2>4. results'.first["x-tls"] # None => Said'
    BY <1>2, <2>1, <2>2, <2>3 DEF BeforeFallback
  <2>5. TLSIsOfTheEntry'
    BY <2>4 DEF TLSIsOfTheEntry, Said
  <2> QED
    BY <1>2, <2>1, <2>2, <2>4, <2>5 DEF TLSInv, Shape
<1>4. CASE FlagInboundHop
  <2>1. /\ stage = "hop" /\ stage' = "tls" /\ UNCHANGED authVars
        /\ inbound' = InboundHopIndex(message.chain, message.source)
    BY <1>4 DEF FlagInboundHop, Then
  <2>2. Said' <=> Said
    BY <2>1 DEF Said, Trusted, Readable, authVars
  <2>3. results'.first["x-tls"] # None => Said'
    BY <1>2, <2>1, <2>2 DEF BeforeFallback, authVars
  <2>4. TLSIsOfTheEntry'
    BY <2>3 DEF TLSIsOfTheEntry, Said
  <2> QED
    BY <1>1, <1>2, <2>1, <2>3, <2>4 DEF TLSInv, Shape, authVars, message
<1>5. CASE FallBackOnHops
  <2>1. /\ stage = "tls" /\ stage' = "dns" /\ inbound' = inbound
        /\ fields' = fields /\ authority' = authority /\ position' = position
    BY <1>5 DEF FallBackOnHops, Then, ReconcileXTLS, authVars
  <2>2. CASE message.source = "received"
    <3>1. results' = [results EXCEPT !.first["x-tls"] = Keep(@, ReconciledTLS(message.chain))]
      BY <1>5, <2>2 DEF FallBackOnHops, Reconciles, ReconcileXTLS
    <3>2. Shape(results')
          /\ results'.first["x-tls"] = Keep(results.first["x-tls"], ReconciledTLS(message.chain))
      BY <1>2, <3>1 DEF Shape, FirstOnly
    <3>3. CASE results.first["x-tls"] # None
      <4>1. Said
        BY <1>2, <2>1, <3>3 DEF BeforeFallback
      <4>2. TLSIsOfTheEntry'
        BY <2>1, <4>1 DEF TLSIsOfTheEntry, Said, Trusted, Readable
      <4> QED
        BY <1>1, <1>2, <2>1, <3>2, <4>2 DEF TLSInv, BeforeFallback, message
    <3>4. CASE results.first["x-tls"] = None
      <4>1. results'.first["x-tls"] = ReconciledTLS(message.chain)
        BY <3>2, <3>4 DEF Keep
      <4>2. inbound = InboundHopIndex(message.chain, "received")
        BY <1>2, <2>1, <2>2
      <4>3. ReconciledTLS(message.chain) # None =>
              inbound = 1 /\ ReconciledTLS(message.chain) = ReconciledTLS(<<message.chain[1]>>)
        BY <4>2, EntryOfReceived
      <4>4. results'.first["x-tls"] # None =>
              /\ inbound' # 0
              /\ results'.first["x-tls"] = ReconciledTLS(<<message'.chain[inbound']>>)
        BY <1>1, <2>1, <4>1, <4>3 DEF message
      <4>5. TLSIsOfTheEntry'
        BY <4>4 DEF TLSIsOfTheEntry, ReconciledTLS
      <4> QED
        BY <1>1, <1>2, <2>1, <3>2, <4>5 DEF TLSInv, BeforeFallback, message
    <3> QED
      BY <3>3, <3>4
  <2>3. CASE message.source # "received"
    <3>1. results' = results
      BY <1>5, <2>3 DEF FallBackOnHops, Reconciles, authVars
    <3>2. Shape(results')
      BY <1>2, <3>1 DEF Shape
    <3>3. TLSIsOfTheEntry'
      BY <1>1, <1>2, <2>1, <3>1 DEF TLSIsOfTheEntry, Trusted, Readable, message
    <3> QED
      BY <1>1, <1>2, <2>1, <3>2, <3>3 DEF TLSInv, BeforeFallback, message
  <2> QED
    BY <2>2, <2>3
<1>6. CASE /\ UNCHANGED <<authVars, inbound>>
           /\ \/ stage = "headers" /\ stage' = "hop"
              \/ stage' = stage
              \/ stage' \notin BeforeFallback
  <2>1. /\ fields' = fields /\ authority' = authority /\ position' = position
        /\ results' = results /\ inbound' = inbound
    BY <1>6 DEF authVars
  <2>2. Said' <=> Said
    BY <2>1 DEF Said, Trusted, Readable
  <2>3. Shape(results')
    BY <1>2, <2>1 DEF Shape
  <2>4. TLSIsOfTheEntry'
    BY <1>1, <1>2, <2>1 DEF TLSIsOfTheEntry, Trusted, Readable, message
  <2> QED
    BY <1>1, <1>2, <1>6, <2>1, <2>2, <2>3, <2>4 DEF TLSInv, BeforeFallback, message
<1>7. CASE GenerateHeaderAnalysis \/ AnalyzeDNS \/ CheckBlockLists \/ CheckAllowLists
  <2>1. UNCHANGED <<authVars, inbound>>
    BY <1>7 DEF GenerateHeaderAnalysis, AnalyzeDNS, CheckBlockLists, CheckAllowLists
  <2>2. \/ stage = "headers" /\ stage' = "hop"
        \/ stage' = stage
        \/ stage' \notin BeforeFallback
    BY <1>7 DEF GenerateHeaderAnalysis, AnalyzeDNS, CheckBlockLists, CheckAllowLists, Then,
       BeforeFallback
  <2> QED
    BY <1>6, <2>1, <2>2
<1>8. CASE AnalyzeSpam \/ AnalyzeContent \/ GenerateReport \/ LookUp \/ CheckBlacklistIP
  <2>1. UNCHANGED <<authVars, inbound>>
    BY <1>8 DEF AnalyzeSpam, AnalyzeContent, GenerateReport, LookUp, CheckBlacklistIP
  <2>2. \/ stage' = stage
        \/ stage' \notin BeforeFallback
    BY <1>8 DEF AnalyzeSpam, AnalyzeContent, GenerateReport, LookUp, CheckBlacklistIP, Then,
       BeforeFallback
  <2> QED
    BY <1>6, <2>1, <2>2
<1>9. CASE UNCHANGED vars
  <2>1. UNCHANGED <<authVars, inbound>> /\ stage' = stage
    BY <1>9 DEF vars, reportVars
  <2> QED
    BY <1>6, <2>1
<1> QED
  BY <1>3, <1>4, <1>5, <1>7, <1>8, <1>9 DEF Next

\* report.go:140-163: for any chain and any fields, a TLS verdict that no field
\* gave speaks of the hop the report shows as the entry.
THEOREM TLSOfTheEntry == Spec => []TLSIsOfTheEntry
<1>1. Init => TLSInv
  BY TLSInitial
<1>2. TLSInv /\ [Next]_vars => TLSInv'
  BY TLSStep
<1>3. TLSInv => TLSIsOfTheEntry
  BY DEF TLSInv
<1> QED
  BY <1>1, <1>2, <1>3, PTL DEF Spec

-----------------------------------------------------------------------------
(* What a field says                                                       *)

LEMMA ForemostFound ==
  ASSUME NEW D \in SUBSET Nat, NEW V, NEW v \in [D -> V]
  PROVE  /\ D = {} => Foremost(v) = None
         /\ D # {} => /\ Topmost(D) \in D /\ \A j \in D : Topmost(D) <= j
                      /\ Foremost(v) = v[Topmost(D)] /\ Foremost(v) \in V
<1>1. D # {} => Topmost(D) \in D /\ \A j \in D : Topmost(D) <= j
  BY Least DEF Topmost
<1> QED
  BY <1>1 DEF Foremost

LEMMA Places ==
  ASSUME NEW S, NEW s \in Seq(S)
  PROVE  DOMAIN s \in SUBSET Nat /\ \A k \in DOMAIN s : s[k] \in S
OBVIOUS

LEMMA FieldVerdicts ==
  ASSUME NEW f \in Field
  PROVE  /\ HeaderSpf(f) \in Verdict \cup {None}
         /\ HeaderHelo(f) \in Verdict \cup {None}
         /\ \A m : FirstResult(f, m) \in Result \cup {None}
<1>1. /\ DOMAIN f.methods \in SUBSET Nat
      /\ \A k \in DOMAIN f.methods : f.methods[k] \in Method
  BY Places DEF Field
<1>2. ASSUME NEW D \in SUBSET DOMAIN f.methods, \A k \in D : f.methods[k].identity \in Identity \cup {None}
      PROVE Foremost(SpfVerdicts(f, D)) \in Verdict \cup {None}
  <2>1. SpfVerdicts(f, D) \in [D -> Verdict]
    BY <1>1, <1>2 DEF SpfVerdicts, Verdict, Method
  <2>2. D \in SUBSET Nat
    BY <1>1
  <2> QED
    BY <2>1, <2>2, ForemostFound
<1>3. \A k \in DOMAIN f.methods : f.methods[k].identity \in Identity \cup {None}
  BY <1>1 DEF Method
<1>4. HeaderSpf(f) \in Verdict \cup {None}
  <2> DEFINE any == {k \in DOMAIN f.methods : OfSender(f.methods[k])}
             explicit == {k \in any : f.methods[k].identity = "mailfrom"}
             chosen == IF explicit = {} THEN any ELSE explicit
  <2>1. chosen \in SUBSET DOMAIN f.methods
    OBVIOUS
  <2>2. HeaderSpf(f) = Foremost(SpfVerdicts(f, chosen))
    BY DEF HeaderSpf
  <2> HIDE DEF chosen
  <2> QED
    BY <1>2, <1>3, <2>1, <2>2
<1>5. HeaderHelo(f) \in Verdict \cup {None}
  <2> DEFINE helo == {k \in DOMAIN f.methods : OfHelo(f.methods[k])}
  <2>1. helo \in SUBSET DOMAIN f.methods
    OBVIOUS
  <2>2. HeaderHelo(f) = Foremost(SpfVerdicts(f, helo))
    BY DEF HeaderHelo
  <2> HIDE DEF helo
  <2> QED
    BY <1>2, <1>3, <2>1, <2>2
<1>6. ASSUME NEW m PROVE FirstResult(f, m) \in Result \cup {None}
  <2> DEFINE own == {k \in DOMAIN f.methods : f.methods[k].name = m}
             v == [k \in own |-> f.methods[k].result]
  <2>1. own \in SUBSET Nat /\ v \in [own -> Result]
    BY <1>1 DEF Method
  <2>2. FirstResult(f, m) = Foremost(v)
    BY DEF FirstResult
  <2> HIDE DEF own, v
  <2> QED
    BY <2>1, <2>2, ForemostFound
<1> QED
  BY <1>4, <1>5, <1>6

\* The loop over the methods collects the verdicts on signatures.
LEMMA DkimListed ==
  ASSUME NEW f \in Field
  PROVE  DkimResults(f) \in Seq(DkimVerdict)
<1> DEFINE N == Len(f.methods)
           one(n) == [result |-> f.methods[n].result, domain |-> f.methods[n].domain]
           grown(s, n) == IF f.methods[n].name # "dkim" THEN s ELSE Append(s, one(n))
           Equation(g) == g = [n \in 0..N |-> IF n = 0 THEN << >>
                                ELSE IF f.methods[n].name # "dkim" THEN g[n - 1]
                                ELSE Append(g[n - 1], one(n))]
           step == [i \in Nat |-> [s \in Seq(DkimVerdict) |-> IF i \in 1..N THEN grown(s, i) ELSE s]]
<1>1. N \in Nat /\ \A k \in 1..N : f.methods[k] \in Method
  BY DEF Field
<1>2. ASSUME NEW i \in 1..N, NEW s \in Seq(DkimVerdict) PROVE grown(s, i) \in Seq(DkimVerdict)
  <2>1. one(i) \in DkimVerdict
    BY <1>1 DEF DkimVerdict, Method
  <2> HIDE DEF one
  <2> QED
    BY <2>1, AppendProperties
<1>3. step \in [Nat -> [Seq(DkimVerdict) -> Seq(DkimVerdict)]]
  <2> HIDE DEF grown, N
  <2> QED
    BY <1>2
<1>4. \E g : Equation(g)
  <2>1. PICK g \in [0..N -> Seq(DkimVerdict)] : IsTrace(g, N, << >>, step)
    <3>1. << >> \in Seq(DkimVerdict)
      OBVIOUS
    <3> HIDE DEF step, N
    <3> QED
      BY <1>1, <1>3, <3>1, Trace
  <2>2. \A i \in 1..N : g[i] = grown(g[i - 1], i)
    <3>1. ASSUME NEW i \in 1..N, NEW s \in Seq(DkimVerdict)
          PROVE  step[i][s] = grown(s, i)
      <4>1. i \in Nat
        BY <1>1
      <4> HIDE DEF grown, N
      <4> QED
        BY <4>1
    <3>2. \A i \in 1..N : g[i - 1] \in Seq(DkimVerdict)
      BY <1>1
    <3> HIDE DEF step, grown
    <3> QED
      BY <2>1, <3>1, <3>2 DEF IsTrace
  <2>3. g[0] = << >>
    BY <2>1 DEF IsTrace
  <2> DEFINE h == [n \in 0..N |-> IF n = 0 THEN << >>
                     ELSE IF f.methods[n].name # "dkim" THEN g[n - 1] ELSE Append(g[n - 1], one(n))]
  <2>4. \A n \in 0..N : g[n] = h[n]
    <3>1. ASSUME NEW n \in 1..N PROVE g[n] = h[n]
      <4>1. n \in 0..N /\ n # 0
        BY <1>1
      <4> HIDE DEF one, N
      <4> QED
        BY <2>2, <4>1
    <3>2. h[0] = << >>
      BY <1>1
    <3>3. \A n \in 0..N : n = 0 \/ n \in 1..N
      BY <1>1
    <3> HIDE DEF h
    <3> QED
      BY <2>3, <3>1, <3>2, <3>3
  <2>5. g = [n \in 0..N |-> g[n]] /\ h = [n \in 0..N |-> h[n]]
    OBVIOUS
  <2>6. g = h
    <3> HIDE DEF h
    <3> QED
      BY <2>4, <2>5
  <2>7. Equation(g)
    BY <2>6
  <2> HIDE DEF Equation
  <2> QED
    BY <2>7
<1> DEFINE found == CHOOSE g : Equation(g)
<1>5. Equation(found)
  <2> HIDE DEF Equation
  <2> QED
    BY <1>4
<1>6. DkimResults(f) = found[N]
  BY DEF DkimResults
<1>7. \A n \in 1..N : found[n] = grown(found[n - 1], n)
  <2> HIDE DEF found, one
  <2> SUFFICES ASSUME NEW n \in 1..N PROVE found[n] = grown(found[n - 1], n)
    OBVIOUS
  <2>1. n \in 0..N /\ n # 0
    BY <1>1
  <2> QED
    BY <1>5, <2>1
<1>8. found[0] = << >>
  <2> HIDE DEF found
  <2> QED
    BY <1>1, <1>5
<1> DEFINE S == {n \in Nat : n <= N => found[n] \in Seq(DkimVerdict)}
<1> HIDE DEF found, one, grown, N, Equation, step
<1>9. 0 \in S
  <2>1. << >> \in Seq(DkimVerdict)
    OBVIOUS
  <2> QED
    BY <1>8, <2>1
<1>10. ASSUME NEW n \in Nat, n \in S PROVE n + 1 \in S
  <2>1. CASE n + 1 <= N
    <3>1. n + 1 \in 1..N /\ n <= N /\ (n + 1) - 1 = n
      BY <1>1, <2>1
    <3>2. found[n] \in Seq(DkimVerdict)
      BY <1>10, <3>1
    <3>3. found[n + 1] = grown(found[n], n + 1)
      BY <1>7, <3>1
    <3> QED
      BY <1>2, <3>1, <3>2, <3>3
  <2>2. CASE ~(n + 1 <= N)
    BY <2>2
  <2> QED
    BY <2>1, <2>2
<1>11. N \in S
  <2> HIDE DEF S
  <2> QED
    BY <1>1, <1>9, <1>10, SetInduction
<1> QED
  BY <1>1, <1>6, <1>11

-----------------------------------------------------------------------------
(* The verdicts                                                            *)

LEMMA LegacyTyped ==
  ASSUME legacy \in Seq(ReceivedSPF)
  PROVE  /\ LegacyOf({"mailfrom", None}) \in Verdict \cup {None}
         /\ LegacyOf({"helo"}) \in Verdict \cup {None}
<1>1. DOMAIN legacy \in SUBSET Nat /\ \A k \in DOMAIN legacy : legacy[k] \in ReceivedSPF
  BY Places
<1>2. ASSUME NEW identities \in SUBSET (Identity \cup {None})
      PROVE  LegacyOf(identities) \in Verdict \cup {None}
  <2> DEFINE D == {k \in DOMAIN legacy : Counts(legacy[k]) /\ legacy[k].identity \in identities}
             v == [k \in D |-> LegacyVerdict(legacy[k])]
  <2>1. ASSUME NEW k \in D PROVE LegacyVerdict(legacy[k]) \in Verdict
    BY <1>1, <1>2, <2>1 DEF LegacyVerdict, Verdict, ReceivedSPF, Identity
  <2>2. LegacyOf(identities) = Foremost(v)
    BY DEF LegacyOf
  <2>3. D \in SUBSET Nat
    BY <1>1
  <2> HIDE DEF D
  <2>4. v \in [D -> Verdict]
    BY <2>1
  <2> HIDE DEF v
  <2> QED
    BY <2>2, <2>3, <2>4, ForemostFound
<1>3. {"mailfrom", None} \in SUBSET (Identity \cup {None}) /\ {"helo"} \in SUBSET (Identity \cup {None})
  BY DEF Identity
<1> QED
  BY <1>2, <1>3

LEMMA OtherVerdicts ==
  /\ \A a : ParseARCHeaders(a) \in Result \cup {None}
  /\ \A chain : ReconciledTLS(chain) \in Result \cup {None}
BY DEF ParseARCHeaders, ReconciledTLS, Result

\* No verdict of r is another one in s.
Keeps(r, s) ==
  /\ r.spf # None => s.spf = r.spf
  /\ r.spfHelo # None => s.spfHelo = r.spfHelo
  /\ IsPrefix(r.dkim, s.dkim)
  /\ \A m \in FirstOnly : r.first[m] # None => s.first[m] = r.first[m]

LEMMA PrefixOfSum ==
  ASSUME NEW S, NEW s \in Seq(S), NEW t \in Seq(S)
  PROVE  /\ IsPrefix(s, s \o t) /\ s \o t \in Seq(S)
<1>1. /\ s \o t \in Seq(S) /\ Len(s \o t) = Len(s) + Len(t)
      /\ \A i \in 1..Len(s) : (s \o t)[i] = s[i]
  BY ConcatProperties
<1>2. Len(s) \in Nat /\ Len(t) \in Nat /\ Len(s) <= Len(s \o t)
  BY <1>1
<1>3. SubSeq(s, 1, Len(s)) = s
  BY SubSeqProperties, <1>2
<1>4. SubSeq(s \o t, 1, Len(s)) = s
  <2>1. /\ SubSeq(s \o t, 1, Len(s)) \in Seq(S)
        /\ Len(SubSeq(s \o t, 1, Len(s))) = Len(s)
        /\ \A i \in 1..Len(s) : SubSeq(s \o t, 1, Len(s))[i] = (s \o t)[i]
    BY <1>1, <1>2, SubSeqProperties
  <2> QED
    BY <1>1, <2>1, SeqEqual
<1> QED
  BY <1>1, <1>2, <1>3, <1>4 DEF IsPrefix

LEMMA PrefixOfItself ==
  ASSUME NEW S, NEW s \in Seq(S) PROVE IsPrefix(s, s)
BY DEF IsPrefix

\* Whom a step of an analysis concerns.
LEMMA AuthStep ==
  ASSUME [Next]_vars
  PROVE  \/ UNCHANGED authVars
         \/ stage = "fields" /\ stage' = "fields" /\ ReadField
         \/ stage = "fields" /\ stage' = "headers" /\ FinishAuthentication
         \/ stage = "tls" /\ stage' = "dns" /\ ReconcileXTLS(message.chain)
<1>1. CASE AnalyzeAuthentication \/ FallBackOnHops
  BY <1>1 DEF AnalyzeAuthentication, FallBackOnHops, Then
<1>2. CASE GenerateHeaderAnalysis \/ FlagInboundHop \/ AnalyzeDNS \/ CheckBlockLists \/ CheckAllowLists
  BY <1>2 DEF GenerateHeaderAnalysis, FlagInboundHop, AnalyzeDNS, CheckBlockLists, CheckAllowLists
<1>3. CASE AnalyzeSpam \/ AnalyzeContent \/ GenerateReport \/ LookUp \/ CheckBlacklistIP
  BY <1>3 DEF AnalyzeSpam, AnalyzeContent, GenerateReport, LookUp, CheckBlacklistIP
<1>4. CASE UNCHANGED vars
  BY <1>4 DEF vars
<1> QED
  BY <1>1, <1>2, <1>3, <1>4 DEF Next

LEMMA AuthTyped ==
  ASSUME AuthTypeOK, [Next]_vars
  PROVE  AuthTypeOK' /\ (Keeps(results, results') \/ UNCHANGED results)
<1>1. /\ fields \in Seq(Field) /\ legacy \in Seq(ReceivedSPF)
      /\ position \in Nat /\ position >= 1 /\ position <= Len(fields) + 1 /\ Len(fields) \in Nat
  BY DEF AuthTypeOK
<1>2. /\ results.spf \in Verdict \cup {None} /\ results.spfHelo \in Verdict \cup {None}
      /\ results.dkim \in Seq(DkimVerdict) /\ results.first \in [FirstOnly -> Result \cup {None}]
  BY DEF AuthTypeOK, Results
<1>3. CASE UNCHANGED authVars
  BY <1>3 DEF authVars, AuthTypeOK
<1>4. CASE ReadField
  <2>1. UNCHANGED <<fields, legacy, authority>> /\ position' = position + 1 /\ position' \in 1..(Len(fields) + 1)
    BY <1>1, <1>4 DEF ReadField
  <2>2. CASE ~Trusted(fields[position])
    BY <1>4, <2>1, <2>2 DEF ReadField, AuthTypeOK
  <2>3. CASE Trusted(fields[position])
    <3> DEFINE f == fields[position]
    <3>1. f \in Field
      BY <1>1, <1>4 DEF ReadField
    <3> HIDE DEF f
    <3>2. results' = ParseAuthenticationResultsHeader(f)
      BY <1>4, <2>3 DEF ReadField, f
    <3>3. /\ results'.spf = Keep(results.spf, HeaderSpf(f))
          /\ results'.spfHelo = Keep(results.spfHelo, HeaderHelo(f))
          /\ results'.dkim = results.dkim \o DkimResults(f)
          /\ results'.first = [m \in FirstOnly |-> Keep(results.first[m], FirstResult(f, m))]
          /\ results' = [spf |-> results'.spf, spfHelo |-> results'.spfHelo,
                         dkim |-> results'.dkim, first |-> results'.first]
      BY <3>2 DEF ParseAuthenticationResultsHeader
    <3>4. results'.spf \in Verdict \cup {None} /\ results'.spfHelo \in Verdict \cup {None}
      BY <1>2, <3>1, <3>3, FieldVerdicts DEF Keep
    <3>5. results'.dkim \in Seq(DkimVerdict) /\ IsPrefix(results.dkim, results'.dkim)
      BY <1>2, <3>1, <3>3, DkimListed, PrefixOfSum
    <3>6. results'.first \in [FirstOnly -> Result \cup {None}]
      BY <1>2, <3>1, <3>3, FieldVerdicts DEF Keep
    <3>7. results' \in Results
      BY <3>3, <3>4, <3>5, <3>6 DEF Results
    <3>8. Keeps(results, results')
      BY <3>3, <3>5 DEF Keeps, Keep
    <3> QED
      BY <2>1, <3>7, <3>8 DEF AuthTypeOK
  <2> QED
    BY <2>2, <2>3
<1>5. CASE FinishAuthentication
  <2> DEFINE w == WithLegacySPF(results)
             arc == ParseARCHeaders(arcSets)
  <2>1. UNCHANGED <<fields, legacy, authority, position>>
        /\ results' = [w EXCEPT !.first["arc"] = Keep(@, arc)]
    BY <1>5 DEF FinishAuthentication
  <2>2. /\ w.spf \in Verdict \cup {None} /\ w.spfHelo \in Verdict \cup {None}
        /\ w.dkim = results.dkim /\ w.first = results.first
        /\ w = [spf |-> w.spf, spfHelo |-> w.spfHelo, dkim |-> w.dkim, first |-> w.first]
        /\ results.spf # None => w.spf = results.spf
        /\ results.spfHelo # None => w.spfHelo = results.spfHelo
    <3>1. CASE results.spf # None
      <4>1. w = results
        BY <3>1 DEF WithLegacySPF
      <4>2. results = [spf |-> results.spf, spfHelo |-> results.spfHelo, dkim |-> results.dkim,
                       first |-> results.first]
        BY DEF AuthTypeOK, Results
      <4> QED
        BY <1>2, <4>1, <4>2
    <3>2. CASE results.spf = None
      <4>1. w = [spf |-> LegacyOf({"mailfrom", None}),
                 spfHelo |-> Keep(results.spfHelo, LegacyOf({"helo"})),
                 dkim |-> results.dkim, first |-> results.first]
        BY <3>2 DEF WithLegacySPF
      <4> HIDE DEF w
      <4> QED
        BY <1>1, <1>2, <3>2, <4>1, LegacyTyped DEF Keep
    <3> QED
      BY <3>1, <3>2
  <2> HIDE DEF w
  <2>3. arc \in Result \cup {None} /\ "arc" \in FirstOnly
    BY OtherVerdicts DEF FirstOnly
  <2> HIDE DEF arc
  <2>4. /\ results'.spf = w.spf /\ results'.spfHelo = w.spfHelo /\ results'.dkim = results.dkim
        /\ results'.first = [results.first EXCEPT !["arc"] = Keep(@, arc)]
        /\ results' = [spf |-> results'.spf, spfHelo |-> results'.spfHelo,
                       dkim |-> results'.dkim, first |-> results'.first]
    BY <2>1, <2>2
  <2>5. results'.first \in [FirstOnly -> Result \cup {None}]
    BY <1>2, <2>3, <2>4 DEF Keep
  <2>6. results' \in Results
    BY <1>2, <2>2, <2>4, <2>5 DEF Results
  <2>7. Keeps(results, results')
    <3>1. IsPrefix(results.dkim, results'.dkim)
      BY <1>2, <2>4, PrefixOfItself
    <3>2. \A m \in FirstOnly : results.first[m] # None => results'.first[m] = results.first[m]
      BY <1>2, <2>4 DEF Keep
    <3> QED
      BY <2>2, <2>4, <3>1, <3>2 DEF Keeps
  <2> QED
    BY <2>1, <2>6, <2>7 DEF AuthTypeOK
<1>6. CASE ReconcileXTLS(message.chain)
  <2> DEFINE tls == ReconciledTLS(message.chain)
  <2>1. UNCHANGED <<fields, legacy, authority, position>>
        /\ results' = [results EXCEPT !.first["x-tls"] = Keep(@, tls)]
    BY <1>6 DEF ReconcileXTLS
  <2>2. tls \in Result \cup {None} /\ "x-tls" \in FirstOnly
    BY OtherVerdicts DEF FirstOnly
  <2> HIDE DEF tls
  <2>3. results = [spf |-> results.spf, spfHelo |-> results.spfHelo, dkim |-> results.dkim,
                   first |-> results.first]
    BY DEF AuthTypeOK, Results
  <2>4. /\ results'.spf = results.spf /\ results'.spfHelo = results.spfHelo
        /\ results'.dkim = results.dkim
        /\ results'.first = [results.first EXCEPT !["x-tls"] = Keep(@, tls)]
        /\ results' = [spf |-> results'.spf, spfHelo |-> results'.spfHelo,
                       dkim |-> results'.dkim, first |-> results'.first]
    BY <2>1, <2>3
  <2>5. results'.first \in [FirstOnly -> Result \cup {None}]
    BY <1>2, <2>2, <2>4 DEF Keep
  <2>6. results' \in Results
    BY <1>2, <2>4, <2>5 DEF Results
  <2>7. Keeps(results, results')
    <3>1. IsPrefix(results.dkim, results'.dkim)
      BY <1>2, <2>4, PrefixOfItself
    <3>2. \A m \in FirstOnly : results.first[m] # None => results'.first[m] = results.first[m]
      BY <1>2, <2>4 DEF Keep
    <3> QED
      BY <2>4, <3>1, <3>2 DEF Keeps
  <2> QED
    BY <2>1, <2>6, <2>7 DEF AuthTypeOK
<1> QED
  BY <1>3, <1>4, <1>5, <1>6, AuthStep DEF authVars

LEMMA AuthInitial ==
  ASSUME Init
  PROVE  AuthTypeOK
<1>1. results \in Results
  <2>1. results = NoVerdicts
    BY DEF Init, AuthInit
  <2>2. << >> \in Seq(DkimVerdict)
    OBVIOUS
  <2> QED
    BY <2>1, <2>2 DEF NoVerdicts, Results
<1>2. CASE \E a \in Analyses : AuthInit(a.config.receiver, a.message.source, a.message)
  <2>1. PICK a \in Analyses : AuthInit(a.config.receiver, a.message.source, a.message)
    BY <1>2
  <2>2. a.message \in Message /\ a.config \in Configuration
    BY JobAssumption
  <2>3. /\ a.config.receiver \in Hosts \cup {None}
        /\ a.message.fields \in Seq(Field) /\ a.message.legacy \in Seq(ReceivedSPF)
    BY <2>2 DEF Message, Configuration
  <2>4. Foremost(AuthservIDs(a.message.fields)) \in Hosts \cup {None}
    <3> DEFINE fs == a.message.fields
               D == {k \in DOMAIN fs : Readable(fs[k])}
    <3>1. D \in SUBSET Nat /\ \A k \in D : fs[k] \in Field /\ fs[k].host # None
      BY <2>3 DEF Readable
    <3>2. AuthservIDs(fs) = [k \in D |-> fs[k].host]
      BY DEF AuthservIDs
    <3>3. \A k \in D : fs[k].host \in Hosts
      BY <3>1 DEF Field
    <3> HIDE DEF D, fs
    <3>4. AuthservIDs(fs) \in [D -> Hosts]
      BY <3>2, <3>3
    <3>5. Foremost(AuthservIDs(fs)) \in Hosts \cup {None}
      BY <3>1, <3>4, ForemostFound
    <3> QED
      BY <3>5 DEF fs
  <2>5. authority \in Hosts \cup {None}
    BY <2>1, <2>3, <2>4 DEF AuthInit, Authority
  <2>6. fields \in Seq(Field) /\ legacy \in Seq(ReceivedSPF) /\ position = 1
    BY <2>1, <2>3 DEF AuthInit
  <2> QED
    BY <1>1, <2>5, <2>6 DEF AuthTypeOK
<1>3. CASE AuthInit(None, "received", Quiet)
  <2>1. fields = << >> /\ legacy = << >> /\ authority = None /\ position = 1
    BY <1>3 DEF AuthInit, Quiet, Authority
  <2> QED
    BY <1>1, <2>1 DEF AuthTypeOK
<1> QED
  BY <1>2, <1>3 DEF Init

THEOREM Verdicts == Spec => []AuthTypeOK
<1>1. Init => AuthTypeOK
  BY AuthInitial
<1>2. AuthTypeOK /\ [Next]_vars => AuthTypeOK'
  BY AuthTyped
<1> QED
  BY <1>1, <1>2, PTL DEF Spec

\* authentication.go:36-80: whatever the fields, the Received-SPF fields, the ARC
\* sets and the hops say, no step takes a verdict back.
THEOREM VerdictsStay == Spec => VerdictIsFinal
<1>1. AuthTypeOK /\ [Next]_vars => [Keeps(results, results')]_results
  BY AuthTyped
<1> QED
  BY <1>1, Verdicts, PTL DEF Spec, VerdictIsFinal, Keeps

-----------------------------------------------------------------------------
(* The closest hop                                                         *)

\* The fields that were read and count.
Read == {k \in 1..(position - 1) : fields[k].host # None /\ authority \in {None, fields[k].host}}

\* Each of them got its say or came after one that did ...
Heard ==
  \A k \in Read :
    /\ \A m \in FirstOnly :
         FirstResult(fields[k], m) # None =>
           \/ results.first[m] = FirstResult(fields[k], m)
           \/ \E j \in Read : j < k /\ FirstResult(fields[j], m) # None
    /\ HeaderSpf(fields[k]) # None =>
         \/ results.spf = HeaderSpf(fields[k])
         \/ \E j \in Read : j < k /\ HeaderSpf(fields[j]) # None

\* ... and nothing else did, while the fields are read.
Sourced(m) == results.first[m] # None => \E k \in Read : results.first[m] = FirstResult(fields[k], m)
SpfRead == results.spf # None => \E k \in Read : results.spf = HeaderSpf(fields[k])

HopInv ==
  /\ AuthTypeOK
  /\ Heard
  /\ \A m \in FirstOnly : stage = "fields" \/ m \notin {"arc", "x-tls"} => Sourced(m)
  /\ IF stage = "fields" THEN SpfRead ELSE SpfRead \/ results.spf = LegacyOf({"mailfrom", None})

LEMMA HopStep ==
  ASSUME HopInv, [Next]_vars
  PROVE  HopInv'
<1>1. AuthTypeOK /\ AuthTypeOK'
  BY AuthTyped DEF HopInv
<1>2. /\ position \in Nat /\ position >= 1 /\ Len(fields) \in Nat
      /\ results.first \in [FirstOnly -> Result \cup {None}]
  BY <1>1 DEF AuthTypeOK, Results
<1>3. CASE UNCHANGED authVars
  <2>1. UNCHANGED <<fields, legacy, authority, position, results>>
    BY <1>3 DEF authVars
  <2>2. Read' = Read /\ LegacyOf({"mailfrom", None})' = LegacyOf({"mailfrom", None})
    BY <2>1 DEF Read, LegacyOf, Counts
  <2>3. stage' = "fields" => stage = "fields"
    <3>1. CASE AnalyzeAuthentication \/ FallBackOnHops \/ GenerateHeaderAnalysis \/ FlagInboundHop
      BY <3>1 DEF AnalyzeAuthentication, FallBackOnHops, GenerateHeaderAnalysis, FlagInboundHop, Then
    <3>2. CASE AnalyzeDNS \/ CheckBlockLists \/ CheckAllowLists \/ AnalyzeSpam
      BY <3>2 DEF AnalyzeDNS, CheckBlockLists, CheckAllowLists, AnalyzeSpam, Then
    <3>3. CASE AnalyzeContent \/ GenerateReport \/ LookUp \/ CheckBlacklistIP
      BY <3>3 DEF AnalyzeContent, GenerateReport, LookUp, CheckBlacklistIP, Then
    <3>4. CASE UNCHANGED vars
      BY <3>4 DEF vars, reportVars
    <3> QED
      BY <3>1, <3>2, <3>3, <3>4 DEF Next
  <2>4. Heard' /\ (\A m \in FirstOnly : Sourced(m) => Sourced(m)') /\ (SpfRead => SpfRead')
    BY <2>1, <2>2 DEF HopInv, Heard, Sourced, SpfRead
  <2> QED
    BY <1>1, <2>1, <2>2, <2>3, <2>4 DEF HopInv
<1>4. CASE stage = "fields" /\ stage' = "fields" /\ ReadField
  <2>1. UNCHANGED <<fields, legacy, authority>> /\ position' = position + 1
    BY <1>4 DEF ReadField
  <2>2. (\A m \in FirstOnly : Sourced(m)) /\ SpfRead /\ Heard
    BY <1>4 DEF HopInv
  <2>3. CASE ~Trusted(fields[position])
    <3>1. results' = results
      BY <1>4, <2>3 DEF ReadField
    <3>2. Read' = Read
      BY <1>2, <2>1, <2>3 DEF Read, Trusted, Readable
    <3>3. Heard' /\ (\A m \in FirstOnly : Sourced(m)') /\ SpfRead'
      BY <2>1, <2>2, <3>1, <3>2 DEF Heard, Sourced, SpfRead
    <3> QED
      BY <1>1, <1>4, <3>3 DEF HopInv
  <2>4. CASE Trusted(fields[position])
    <3> DEFINE f == fields[position]
    <3>1. /\ results'.spf = Keep(results.spf, HeaderSpf(f))
          /\ \A m \in FirstOnly : results'.first[m] = Keep(results.first[m], FirstResult(f, m))
      BY <1>4, <2>4 DEF ReadField, ParseAuthenticationResultsHeader
    <3>2. Read' = Read \cup {position} /\ \A k \in Read : k < position
      BY <1>2, <2>1, <2>4 DEF Read, Trusted, Readable
    <3>3. ASSUME NEW m \in FirstOnly PROVE Sourced(m)'
      <4>1. Sourced(m)
        BY <2>2
      <4> QED
        BY <2>1, <3>1, <3>2, <4>1 DEF Sourced, Keep
    <3>4. SpfRead'
      BY <2>1, <2>2, <3>1, <3>2 DEF SpfRead, Keep
    <3>5. ASSUME NEW k \in Read', NEW m \in FirstOnly, FirstResult(fields[k], m) # None
          PROVE  \/ results'.first[m] = FirstResult(fields[k], m)
                 \/ \E j \in Read' : j < k /\ FirstResult(fields[j], m) # None
      <4>1. CASE k \in Read
        BY <2>2, <3>1, <3>2, <3>5, <4>1 DEF Heard, Keep
      <4>2. CASE k = position
        <5>1. CASE results.first[m] = None
          BY <3>1, <4>2, <5>1 DEF Keep
        <5>2. CASE results.first[m] # None
          BY <2>2, <3>2, <4>2, <5>2 DEF Sourced
        <5> QED
          BY <5>1, <5>2
      <4> QED
        BY <3>2, <4>1, <4>2
    <3>6. ASSUME NEW k \in Read', HeaderSpf(fields[k]) # None
          PROVE  \/ results'.spf = HeaderSpf(fields[k])
                 \/ \E j \in Read' : j < k /\ HeaderSpf(fields[j]) # None
      <4>1. CASE k \in Read
        BY <2>2, <3>1, <3>2, <3>6, <4>1 DEF Heard, Keep
      <4>2. CASE k = position
        <5>1. CASE results.spf = None
          BY <3>1, <4>2, <5>1 DEF Keep
        <5>2. CASE results.spf # None
          BY <2>2, <3>2, <4>2, <5>2 DEF SpfRead
        <5> QED
          BY <5>1, <5>2
      <4> QED
        BY <3>2, <4>1, <4>2
    <3>7. Heard'
      BY <2>1, <3>5, <3>6 DEF Heard
    <3> QED
      BY <1>1, <1>4, <3>3, <3>4, <3>7 DEF HopInv
  <2> QED
    BY <2>3, <2>4
<1>5. CASE \/ stage = "fields" /\ stage' = "headers" /\ FinishAuthentication
           \/ stage = "tls" /\ stage' = "dns" /\ ReconcileXTLS(message.chain)
  <2>1. UNCHANGED <<fields, legacy, authority, position>>
    BY <1>5 DEF FinishAuthentication, ReconcileXTLS
  <2>2. Read' = Read /\ LegacyOf({"mailfrom", None})' = LegacyOf({"mailfrom", None})
    BY <2>1 DEF Read, LegacyOf, Counts
  <2>3. Keeps(results, results') \/ results' = results
    BY <1>1, AuthTyped
  <2>4. Heard'
    BY <2>1, <2>2, <2>3 DEF HopInv, Heard, Keeps
  <2>5. \A m \in FirstOnly \ {"arc", "x-tls"} : results'.first[m] = results.first[m]
    <3>1. CASE FinishAuthentication
      <4>1. WithLegacySPF(results).first = results.first
        BY DEF WithLegacySPF
      <4>2. results' = [WithLegacySPF(results) EXCEPT !.first["arc"] = Keep(@, ParseARCHeaders(arcSets))]
        BY <3>1 DEF FinishAuthentication
      <4>3. /\ results.spf # None => WithLegacySPF(results) = results
            /\ results = [spf |-> results.spf, spfHelo |-> results.spfHelo, dkim |-> results.dkim,
                          first |-> results.first]
        BY <1>1 DEF WithLegacySPF, AuthTypeOK, Results
      <4>4. results'.first = [results.first EXCEPT !["arc"] = Keep(@, ParseARCHeaders(arcSets))]
        <5>1. CASE results.spf # None
          BY <4>2, <4>3, <5>1
        <5>2. CASE results.spf = None
          <6>1. WithLegacySPF(results) =
                  [spf |-> LegacyOf({"mailfrom", None}),
                   spfHelo |-> Keep(results.spfHelo, LegacyOf({"helo"})),
                   dkim |-> results.dkim, first |-> results.first]
            BY <5>2 DEF WithLegacySPF
          <6> QED
            BY <4>2, <6>1
        <5> QED
          BY <5>1, <5>2
      <4> QED
        BY <1>2, <4>4
    <3>2. CASE ReconcileXTLS(message.chain)
      <4>1. results' = [results EXCEPT !.first["x-tls"] = Keep(@, ReconciledTLS(message.chain))]
        BY <3>2 DEF ReconcileXTLS
      <4>2. results'.first = [results.first EXCEPT !["x-tls"] = Keep(@, ReconciledTLS(message.chain))]
        BY <1>1, <4>1 DEF AuthTypeOK, Results
      <4> QED
        BY <1>2, <4>2
    <3> QED
      BY <1>5, <3>1, <3>2
  <2>6. ASSUME NEW m \in FirstOnly, m \notin {"arc", "x-tls"} PROVE Sourced(m)'
    BY <2>1, <2>2, <2>5, <2>6 DEF HopInv, Sourced
  <2>7. SpfRead' \/ results'.spf = LegacyOf({"mailfrom", None})
    <3>1. CASE FinishAuthentication
      <4>1. results' = [WithLegacySPF(results) EXCEPT !.first["arc"] = Keep(@, ParseARCHeaders(arcSets))]
        BY <3>1 DEF FinishAuthentication
      <4>2. CASE results.spf # None
        BY <1>5, <2>1, <2>2, <2>3, <4>2 DEF HopInv, SpfRead, Keeps
      <4>3. CASE results.spf = None
        <5>1. WithLegacySPF(results) =
                [spf |-> LegacyOf({"mailfrom", None}),
                 spfHelo |-> Keep(results.spfHelo, LegacyOf({"helo"})),
                 dkim |-> results.dkim, first |-> results.first]
          BY <4>3 DEF WithLegacySPF
        <5>2. results'.spf = LegacyOf({"mailfrom", None})
          BY <4>1, <5>1
        <5> QED
          BY <5>2
      <4> QED
        BY <4>2, <4>3
    <3>2. CASE ReconcileXTLS(message.chain)
      <4>1. results' = [results EXCEPT !.first["x-tls"] = Keep(@, ReconciledTLS(message.chain))]
        BY <3>2 DEF ReconcileXTLS
      <4>2. results'.spf = results.spf
        BY <1>1, <4>1 DEF AuthTypeOK, Results
      <4> QED
        BY <1>5, <2>1, <2>2, <4>2 DEF HopInv, SpfRead
    <3> QED
      BY <1>5, <3>1, <3>2
  <2> QED
    BY <1>1, <1>5, <2>2, <2>4, <2>6, <2>7 DEF HopInv
<1> QED
  BY <1>3, <1>4, <1>5, AuthStep

\* authentication.go:90-95, for any fields and any authority.
THEOREM ClosestHop == Spec => []ClosestHopSpeaks
<1>1. Init => HopInv
  <2> SUFFICES ASSUME Init PROVE HopInv
    OBVIOUS
  <2>1. AuthTypeOK /\ position = 1 /\ results = NoVerdicts
    BY AuthInitial DEF Init, AuthInit
  <2>2. Read = {}
    BY <2>1 DEF Read
  <2>3. results.spf = None /\ \A m \in FirstOnly : results.first[m] = None
    BY <2>1 DEF NoVerdicts
  <2> QED
    BY <2>1, <2>2, <2>3 DEF HopInv, Heard, Sourced, SpfRead
<1>2. HopInv /\ [Next]_vars => HopInv'
  BY HopStep
<1>3. HopInv => ClosestHopSpeaks
  <2> SUFFICES ASSUME HopInv PROVE ClosestHopSpeaks
    OBVIOUS
  <2>1. Heard /\ (\A m \in FirstOnly \ {"arc", "x-tls"} : Sourced(m))
        /\ (SpfRead \/ results.spf = LegacyOf({"mailfrom", None}))
    BY DEF HopInv
  <2> QED
    BY <2>1 DEF ClosestHopSpeaks, Heard, Sourced, SpfRead, Read
<1> QED
  BY <1>1, <1>2, <1>3, PTL DEF Spec

-----------------------------------------------------------------------------
(* The spam filters                                                        *)

\* The header a filter is credited with is one of its own, the topmost.
LEMMA CreditedHeader ==
  ASSUME NEW hs \in Seq(SpamHeader), NEW scanner, NEW name
  PROVE  LET own == {i \in Named(hs, name) : Owner(hs[i], hs) = scanner}
             h   == Credited(hs, scanner, name) IN
         /\ h \in SpamHeader \cup {None}
         /\ own = {} <=> h = None
         /\ own # {} => h = hs[Topmost(own)] /\ Topmost(own) \in own /\ \A k \in own : Topmost(own) <= k
<1> DEFINE own == {i \in Named(hs, name) : Owner(hs[i], hs) = scanner}
           v == [k \in own |-> hs[k]]
<1>1. own \in SUBSET Nat /\ \A k \in own : hs[k] \in SpamHeader
  BY Places DEF Named
<1>2. Credited(hs, scanner, name) = Foremost(v)
  BY DEF Credited
<1>3. None \notin SpamHeader
  BY FilterAssumption
<1> HIDE DEF own
<1>4. v \in [own -> SpamHeader]
  BY <1>1
<1>5. \A k \in own : v[k] = hs[k]
  OBVIOUS
<1> HIDE DEF v
<1>6. /\ own = {} => Foremost(v) = None
      /\ own # {} => /\ Topmost(own) \in own /\ \A j \in own : Topmost(own) <= j
                     /\ Foremost(v) = v[Topmost(own)] /\ Foremost(v) \in SpamHeader
  BY <1>1, <1>4, ForemostFound
<1> QED
  BY <1>2, <1>3, <1>5, <1>6 DEF own

LEMMA Reading ==
  ASSUME NEW h \in SpamHeader \cup {None}
  PROVE  /\ Score(h) \in Int \cup {None} /\ Required(h) \in Int \cup {None}
         /\ Spam(h) \in BOOLEAN \cup {None}
         /\ Positive(Required(h)) \in Int \cup {None}
         /\ Positive(Required(h)) # None => Positive(Required(h)) > 0
<1>1. Score(h) \in Int \cup {None} /\ Required(h) \in Int \cup {None} /\ Spam(h) \in BOOLEAN \cup {None}
  BY DEF Score, Required, Spam, SpamHeader
<1> QED
  BY <1>1 DEF Positive

LEMMA Alternatives ==
  ASSUME NEW V, NEW a \in V \cup {None}, NEW b \in V \cup {None}
  PROVE  /\ OrElse(a, b) \in V \cup {None}
         /\ b \in V => OrElse(a, b) \in V
BY DEF OrElse

LEMMA Flag ==
  ASSUME NEW v \in BOOLEAN \cup {None}
  PROVE  OrElse(v, FALSE) \in BOOLEAN
BY Zenon DEF OrElse

LEMMA SpamAssassinTyped ==
  ASSUME NEW hs \in Seq(SpamHeader)
  PROVE  LET a == AnalyzeSpamAssassin(hs)
             Own(name) == Credited(hs, "spamassassin", name) IN
         /\ a \in SpamAssassinResult \cup {None}
         /\ a = None <=> \A name \in SharedName : Own(name) = None
         /\ a # None => a.score = OrElse(OrElse(Score(Own("status")), Score(Own("score"))), 0)
<1> DEFINE status == Credited(hs, "spamassassin", "status")
           score == Credited(hs, "spamassassin", "score")
           flag == Credited(hs, "spamassassin", "flag")
           nothing == \A name \in SharedName : Credited(hs, "spamassassin", name) = None
           r == [score |-> OrElse(OrElse(Score(status), Score(score)), 0),
                 required |-> OrElse(Required(status), 0),
                 isSpam |-> OrElse(OrElse(Spam(status), Spam(flag)), FALSE)]
<1>1. AnalyzeSpamAssassin(hs) = IF nothing THEN None ELSE r
  BY DEF AnalyzeSpamAssassin
<1>2. status \in SpamHeader \cup {None} /\ score \in SpamHeader \cup {None} /\ flag \in SpamHeader \cup {None}
  BY CreditedHeader
<1> HIDE DEF status, score, flag, nothing
<1>3. r.score \in Int /\ r.required \in Int /\ r.isSpam \in BOOLEAN
  <2>1. OrElse(Score(status), Score(score)) \in Int \cup {None}
    BY <1>2, Reading, Alternatives
  <2>2. OrElse(Spam(status), Spam(flag)) \in BOOLEAN \cup {None}
    BY <1>2, Reading, Alternatives
  <2>3. OrElse(OrElse(Spam(status), Spam(flag)), FALSE) \in BOOLEAN
    BY <2>2, Flag, Zenon
  <2>4. OrElse(OrElse(Score(status), Score(score)), 0) \in Int
    BY <2>1, Alternatives
  <2>5. OrElse(Required(status), 0) \in Int
    BY <1>2, Reading, Alternatives
  <2> QED
    BY <2>3, <2>4, <2>5
<1>4. r \in SpamAssassinResult /\ r.score = OrElse(OrElse(Score(status), Score(score)), 0)
  BY <1>3 DEF SpamAssassinResult
<1>5. r # None
  BY <1>4, FilterAssumption
<1> HIDE DEF r
<1> QED
  BY <1>1, <1>4, <1>5 DEF status, score, nothing

LEMMA RspamdTyped ==
  ASSUME NEW hs \in Seq(SpamHeader)
  PROVE  LET r == AnalyzeRspamd(hs)
             asked == SharedName \cup {"spamd-result", "rspamd-score"} IN
         /\ r \in RspamdResult \cup {None}
         /\ r = None <=> \A name \in asked : OfRspamd(hs, name) = None
         /\ RspamdScore(hs) \in Int \cup {None}
         /\ r # None => /\ r.score = OrElse(RspamdScore(hs), 0)
                        /\ r.threshold # None => r.threshold > 0
                        /\ RspamdScore(hs) # None => r.isSpam = (r.score >= EffectiveThreshold(r))
<1> DEFINE asked == SharedName \cup {"spamd-result", "rspamd-score"}
           nothing == \A name \in asked : OfRspamd(hs, name) = None
           score == RspamdScore(hs)
           threshold == RspamdThreshold(hs)
           flag == OfRspamd(hs, "flag")
           result == OfRspamd(hs, "spamd-result")
           said == RspamdFlag(hs)
           weighed == IF score # None
                        THEN score >= OrElse(threshold, AddHeaderThreshold) ELSE said
           r == [score |-> OrElse(score, 0), threshold |-> threshold, isSpam |-> weighed]
<1>1. \A name : OfRspamd(hs, name) \in SpamHeader \cup {None}
  BY CreditedHeader DEF OfRspamd
<1>2. score \in Int \cup {None}
  <2> DEFINE status == IF Score(result) = None \/ Positive(Required(result)) = None
                         THEN OfRspamd(hs, "status") ELSE None
             s1 == Score(OfRspamd(hs, "rspamd-score"))
             s2 == Score(status)
             s3 == Score(result)
             s4 == Score(OfRspamd(hs, "score"))
  <2>1. status \in SpamHeader \cup {None}
    BY <1>1
  <2>2. s1 \in Int \cup {None} /\ s3 \in Int \cup {None} /\ s4 \in Int \cup {None}
    BY <1>1, Reading
  <2>3. score = OrElse(s1, OrElse(s2, OrElse(s3, s4)))
    BY DEF RspamdScore
  <2> HIDE DEF status
  <2>4. s2 \in Int \cup {None}
    BY <2>1, Reading
  <2> HIDE DEF s1, s2, s3, s4, score
  <2>5. OrElse(s3, s4) \in Int \cup {None}
    BY <2>2, Alternatives
  <2>6. OrElse(s2, OrElse(s3, s4)) \in Int \cup {None}
    BY <2>4, <2>5, Alternatives
  <2> QED
    BY <2>2, <2>3, <2>6, Alternatives
<1>3. threshold \in Int \cup {None} /\ (threshold # None => threshold > 0)
  <2> DEFINE p1 == Positive(Required(OfRspamd(hs, "status")))
             p2 == Positive(Required(result))
  <2>1. /\ p1 \in Int \cup {None} /\ (p1 # None => p1 > 0)
        /\ p2 \in Int \cup {None} /\ (p2 # None => p2 > 0)
    BY <1>1, Reading
  <2>2. threshold = p2 \/ threshold = OrElse(p1, p2)
    BY DEF RspamdThreshold
  <2> HIDE DEF p1, p2, threshold
  <2> QED
    BY <2>1, <2>2 DEF OrElse
<1>4. said \in BOOLEAN
  <2>1. \A h \in SpamHeader \cup {None} : OrElse(Spam(h), FALSE) \in BOOLEAN
    BY Reading, Flag, Zenon
  <2>2. CASE flag # None
    <3>1. said = OrElse(Spam(flag), FALSE)
      BY <2>2, Zenon DEF RspamdFlag
    <3> QED
      BY <1>1, <2>1, <3>1, Zenon
  <2>3. CASE flag = None
    <3>1. said = OrElse(Spam(result), FALSE)
      BY <2>3, Zenon DEF RspamdFlag
    <3> QED
      BY <1>1, <2>1, <3>1, Zenon
  <2> QED
    BY <2>2, <2>3, Zenon
<1>5. AnalyzeRspamd(hs) = IF nothing THEN None ELSE r
  BY Zenon DEF AnalyzeRspamd
<1> HIDE DEF score, threshold, said, nothing
<1>6. OrElse(score, 0) \in Int
  BY <1>2 DEF OrElse
<1>7. weighed \in BOOLEAN
  <2>1. (score >= OrElse(threshold, AddHeaderThreshold)) \in BOOLEAN
    BY <1>2, <1>3 DEF OrElse, AddHeaderThreshold
  <2> QED
    BY <1>4, <2>1, Zenon
<1> HIDE DEF weighed
<1>8. /\ r \in RspamdResult /\ r.score = OrElse(score, 0) /\ r.threshold = threshold
      /\ r.isSpam = weighed
  BY <1>3, <1>6, <1>7 DEF RspamdResult
<1>9. r # None
  BY <1>8, FilterAssumption
<1>10. score # None => r.isSpam = (r.score >= EffectiveThreshold(r))
  <2> SUFFICES ASSUME score # None
               PROVE  r.isSpam = (r.score >= EffectiveThreshold(r))
    OBVIOUS
  <2>1. OrElse(score, 0) = score
    BY DEF OrElse
  <2>2. weighed = (score >= OrElse(threshold, AddHeaderThreshold))
    BY DEF weighed
  <2>3. EffectiveThreshold(r) = OrElse(threshold, AddHeaderThreshold)
    BY <1>8, Zenon DEF EffectiveThreshold
  <2> HIDE DEF r
  <2> QED
    BY <1>8, <2>1, <2>2, <2>3, Zenon
<1> HIDE DEF r
<1> QED
  BY <1>2, <1>3, <1>5, <1>8, <1>9, <1>10 DEF nothing, score

LEMMA TopmostLeast ==
  ASSUME NEW S \in SUBSET Nat, S # {}
  PROVE  Topmost(S) \in S /\ \A j \in S : Topmost(S) <= j
<1> DEFINE v == [k \in S |-> k]
<1>1. v \in [S -> Nat]
  OBVIOUS
<1> HIDE DEF v
<1> QED
  BY <1>1, ForemostFound

\* What an analysis works on.
LEMMA Mail ==
  ASSUME JobInv, job # None
  PROVE  message \in Message
BY JobAssumption DEF JobInv, message

\* spamheaders.go:50-120: for any headers, the topmost status SpamAssassin signed
\* is the one it is judged by when no unsigned one is above it, and the score
\* that is rspamd's by its name the one rspamd is judged by.
THEOREM OwnScore == Spec => []ScoreIsOwn
<1>1. JobInv => ScoreIsOwn
  <2> SUFFICES ASSUME JobInv, job # None
               PROVE  ScoreIsOwn
    BY DEF ScoreIsOwn
  <2> DEFINE hs == message.spam
             signed == {k \in DOMAIN hs : hs[k].name = "status" /\ hs[k].signer = "spamassassin"}
             topmost == Topmost(signed)
             own == Named(hs, "rspamd-score")
             above == {j \in 1..(topmost - 1) : hs[j].name = "status" /\ hs[j].signer = None}
             assassin == AnalyzeSpamAssassin(hs)
             rspamd == AnalyzeRspamd(hs)
  <2>1. hs \in Seq(SpamHeader)
    BY Mail DEF Message
  <2> HIDE DEF hs
  <2>2. DOMAIN hs = 1..Len(hs) /\ Len(hs) \in Nat /\ \A k \in DOMAIN hs : hs[k] \in SpamHeader
    BY <2>1
  <2>3. ASSUME signed # {}, above = {}, hs[topmost].score # None
        PROVE  assassin # None /\ assassin.score = hs[topmost].score
    <3> DEFINE mine == {i \in Named(hs, "status") : Owner(hs[i], hs) = "spamassassin"}
               status == Credited(hs, "spamassassin", "status")
    <3>1. "spamassassin" # None /\ "status" \notin RspamdName /\ "status" \in SharedName
      BY FilterAssumption DEF Scanner, RspamdName, SharedName
    <3>2. topmost \in signed /\ \A j \in signed : topmost <= j
      <4>1. signed \in SUBSET Nat /\ signed # {}
        BY <2>2, <2>3
      <4> HIDE DEF signed
      <4> QED
        BY <4>1, TopmostLeast
    <3>3. signed \subseteq mine
      BY <3>1 DEF Owner, Signer, Named
    <3>4. mine \in SUBSET Nat
      BY <2>2 DEF Named
    <3>5. \A k \in mine : topmost <= k
      <4> SUFFICES ASSUME NEW k \in mine, ~(topmost <= k)
                   PROVE  FALSE
        OBVIOUS
      <4>1. k \in DOMAIN hs /\ hs[k].name = "status" /\ Owner(hs[k], hs) = "spamassassin"
        BY DEF Named
      <4>2. k \in 1..(topmost - 1)
        BY <2>2, <3>2, <4>1
      <4>3. hs[k].signer # None
        BY <2>3, <4>1, <4>2
      <4>4. hs[k].signer = "spamassassin"
        BY <3>1, <4>1, <4>3 DEF Owner, Signer
      <4> QED
        BY <3>2, <4>1, <4>4
    <3>6. /\ mine # {} => status = hs[Topmost(mine)] /\ Topmost(mine) \in mine
                          /\ \A k \in mine : Topmost(mine) <= k
      BY <2>1, CreditedHeader
    <3> HIDE DEF signed, mine, status
    <3>7. topmost \in mine /\ topmost \in Nat
      BY <3>2, <3>3, <3>4
    <3>8. Topmost(mine) = topmost
      <4>1. Topmost(mine) \in mine /\ Topmost(mine) <= topmost
        BY <3>6, <3>7
      <4>2. Topmost(mine) \in Nat /\ topmost <= Topmost(mine)
        BY <3>4, <3>5, <4>1
      <4> QED
        BY <3>7, <4>1, <4>2
    <3>9. status = hs[topmost]
      BY <3>6, <3>7, <3>8
    <3>10. status \in SpamHeader /\ status # None
      <4>1. topmost \in DOMAIN hs
        BY <3>7 DEF mine, Named
      <4> QED
        BY <2>2, <3>9, <4>1, FilterAssumption
    <3>11. Score(status) = hs[topmost].score
      BY <3>9, <3>10 DEF Score
    <3>12. assassin # None
           /\ assassin.score = OrElse(OrElse(Score(status), Score(Credited(hs, "spamassassin", "score"))), 0)
      BY <2>1, <3>1, <3>10, SpamAssassinTyped DEF status
    <3> HIDE DEF assassin, topmost
    <3> QED
      BY <2>3, <3>11, <3>12 DEF OrElse
  <2>4. ASSUME own # {}, hs[Topmost(own)].score # None
        PROVE  rspamd # None /\ rspamd.score = hs[Topmost(own)].score
    <3> DEFINE mine == {i \in Named(hs, "rspamd-score") : Owner(hs[i], hs) = "rspamd"}
               h == Credited(hs, "rspamd", "rspamd-score")
    <3>1. mine = own
      BY DEF Owner, RspamdName, Named
    <3>2. h = hs[Topmost(own)] /\ h # None
      <4>1. mine # {}
        BY <2>4, <3>1
      <4>2. h = hs[Topmost(mine)] /\ h # None
        BY <2>1, <4>1, CreditedHeader
      <4> QED
        BY <3>1, <4>2
    <3>3. h = OfRspamd(hs, "rspamd-score")
      BY DEF OfRspamd
    <3> HIDE DEF h, mine, own
    <3>4. Score(h) = hs[Topmost(own)].score
      BY <3>2 DEF Score
    <3>5. RspamdScore(hs) = Score(h)
      BY <2>4, <3>3, <3>4 DEF RspamdScore, OrElse
    <3>6. rspamd # None
      BY <2>1, <3>2, <3>3, RspamdTyped
    <3>7. rspamd.score = OrElse(RspamdScore(hs), 0)
      BY <2>1, <3>6, RspamdTyped
    <3> QED
      BY <2>4, <3>4, <3>5, <3>6, <3>7 DEF OrElse
  <2> QED
    BY <2>3, <2>4 DEF ScoreIsOwn, hs
<1> QED
  BY <1>1, Jobs, PTL

\* RspamdCard.svelte:20-32 and rspamd.go:120-145: whatever score and threshold
\* were reported, the action on the card and the verdict next to it agree.
THEOREM ActionShown == Spec => []ActionIsOfTheVerdict
<1>1. JobInv => ActionIsOfTheVerdict
  <2> SUFFICES ASSUME JobInv, job # None
               PROVE  ActionIsOfTheVerdict
    BY DEF ActionIsOfTheVerdict
  <2> DEFINE hs == message.spam
             r == AnalyzeRspamd(hs)
  <2>1. hs \in Seq(SpamHeader)
    BY Mail DEF Message
  <2> SUFFICES ASSUME r # None, RspamdScore(hs) # None
               PROVE  r.isSpam = (EffectiveAction(r) \in IF r.threshold = None THEN {"Add header", "Reject"}
                                                         ELSE {"Reject"})
    BY DEF ActionIsOfTheVerdict
  <2> HIDE DEF hs
  <2>2. /\ r \in RspamdResult
        /\ RspamdScore(hs) \in Int /\ r.score = OrElse(RspamdScore(hs), 0)
        /\ r.isSpam = (r.score >= EffectiveThreshold(r))
    BY <2>1, RspamdTyped
  <2>3. r.score \in Int /\ r.threshold \in Int \cup {None}
    BY <2>2 DEF RspamdResult
  <2> HIDE DEF r
  <2>4. CASE r.threshold = None
    <3>1. EffectiveThreshold(r) = 60 /\ OrElse(r.threshold, Reject) = 150
      BY <2>4 DEF EffectiveThreshold, OrElse, AddHeaderThreshold, Reject
    <3>2. (r.score >= 60) <=> EffectiveAction(r) \in {"Add header", "Reject"}
      BY <2>3, <3>1 DEF EffectiveAction
    <3>3. r.isSpam = (r.score >= 60)
      BY <2>2, <3>1, Zenon
    <3>4. r.isSpam = (EffectiveAction(r) \in {"Add header", "Reject"})
      <4> DEFINE a == (r.score >= 60)
                 b == (EffectiveAction(r) \in {"Add header", "Reject"})
      <4>1. a <=> b
        BY <3>2
      <4>2. a \in BOOLEAN /\ b \in BOOLEAN
        BY <2>3
      <4> HIDE DEF a, b
      <4>3. a = b
        BY <4>1, <4>2, Zenon
      <4> QED
        BY <3>3, <4>3, Zenon DEF a, b
    <3> QED
      BY <2>4, <3>4
  <2>5. CASE r.threshold # None
    <3>1. EffectiveThreshold(r) = r.threshold /\ OrElse(r.threshold, Reject) = r.threshold
      BY <2>5 DEF EffectiveThreshold, OrElse
    <3>2. (r.score >= r.threshold) <=> EffectiveAction(r) \in {"Reject"}
      BY <2>3, <2>5, <3>1 DEF EffectiveAction
    <3> QED
      BY <2>2, <2>5, <3>1, <3>2
  <2> QED
    BY <2>4, <2>5
<1> QED
  BY <1>1, Jobs, PTL

-----------------------------------------------------------------------------
(* The colours of the cards                                                *)

LEMMA ResultsRead ==
  ASSUME NEW r \in Results
  PROVE  /\ r.spf # None => r.spf.result \in Result
         /\ r.spfHelo # None => r.spfHelo.result \in Result
         /\ r.dkim \in Seq(DkimVerdict)
         /\ DOMAIN r.dkim = 1..Len(r.dkim) /\ Len(r.dkim) \in Nat
         /\ r.dkim = << >> <=> DOMAIN r.dkim = {}
         /\ \A k \in DOMAIN r.dkim : r.dkim[k].result \in Result
         /\ \A m \in FirstOnly : r.first[m] \in Result \cup {None}
<1>1. /\ r.spf \in Verdict \cup {None} /\ r.spfHelo \in Verdict \cup {None}
      /\ r.dkim \in Seq(DkimVerdict) /\ r.first \in [FirstOnly -> Result \cup {None}]
  BY DEF Results
<1>2. r.dkim = << >> <=> DOMAIN r.dkim = {}
  <2>1. r.dkim # << >> => Len(r.dkim) \in Nat \ {0}
    BY <1>1, EmptySeq
  <2>2. DOMAIN r.dkim = 1..Len(r.dkim)
    BY <1>1
  <2>3. r.dkim # << >> => 1 \in DOMAIN r.dkim
    BY <2>1, <2>2
  <2> QED
    BY <2>3
<1>3. \A k \in DOMAIN r.dkim : r.dkim[k] \in DkimVerdict
  BY <1>1, Places
<1> QED
  BY <1>1, <1>2, <1>3 DEF Verdict, DkimVerdict

\* Of the words a verdict can be, pass alone is green.
LEMMA OnlyPassIsGreen ==
  ASSUME NEW w \in Result \cup {"missing"}, NEW b \in BOOLEAN
  PROVE  AuthResultClass(w, b) = "success" <=> w = "pass"
BY DEF AuthResultClass, Result

LEMMA SpfGreen ==
  ASSUME NEW r \in Results
  PROVE  SpfRow(r) = "success" <=> CalculateSPFScore(r) = 100
<1>1. CASE r.spf # None
  <2>1. SpfRow(r) = AuthResultClass(r.spf.result, TRUE)
    BY <1>1 DEF SpfRow
  <2>2. SpfRow(r) = "success" <=> r.spf.result = "pass"
    BY <1>1, <2>1, ResultsRead, OnlyPassIsGreen
  <2>3. CalculateSPFScore(r) = 100 <=> r.spf.result = "pass"
    BY <1>1 DEF CalculateSPFScore
  <2> QED
    BY <2>2, <2>3
<1>2. CASE r.spf = None
  <2>1. SpfRow(r) # "success"
    BY <1>2 DEF SpfRow, AuthResultClass
  <2>2. CalculateSPFScore(r) # 100
    BY <1>2 DEF CalculateSPFScore
  <2> QED
    BY <2>1, <2>2
<1> QED
  BY <1>1, <1>2

LEMMA DkimGreen ==
  ASSUME NEW r \in Results
  PROVE  DkimRows(r) = {"success"} <=> CalculateDKIMScore(r) = 100
<1> DEFINE D == DOMAIN r.dkim
           passes == {k \in D : r.dkim[k].result = "pass"}
<1>1. CASE r.dkim = << >>
  <2>1. DkimRows(r) = {"danger"}
    BY <1>1 DEF DkimRows, AuthResultClass
  <2>2. CalculateDKIMScore(r) = 0
    BY <1>1 DEF CalculateDKIMScore
  <2> QED
    BY <2>1, <2>2
<1>2. CASE r.dkim # << >>
  <2>1. D # {} /\ \A k \in D : r.dkim[k].result \in Result
    BY <1>2, ResultsRead
  <2>2. DkimRows(r) = {AuthResultClass(r.dkim[k].result, TRUE) : k \in D}
    BY <1>2 DEF DkimRows
  <2>3. \A k \in D : AuthResultClass(r.dkim[k].result, TRUE) = "success" <=> r.dkim[k].result = "pass"
    BY <2>1, OnlyPassIsGreen
  <2>4. DkimRows(r) = {"success"} <=> passes = D
    BY <2>1, <2>2, <2>3
  <2>5. CalculateDKIMScore(r) = 100 <=> passes = D
    BY <1>2, <2>1 DEF CalculateDKIMScore
  <2> QED
    BY <2>4, <2>5
<1> QED
  BY <1>1, <1>2

LEMMA DmarcAndBimiGreen ==
  ASSUME NEW r \in Results
  PROVE  /\ DmarcRow(r) = "success" <=> CalculateDMARCScore(r) = 100
         /\ BimiRow(r) = "success" <=> CalculateBIMIScore(r) = 100
<1>1. r.first["dmarc"] \in Result \cup {None} /\ r.first["bimi"] \in Result \cup {None}
  BY ResultsRead DEF FirstOnly
<1>2. DmarcRow(r) = "success" <=> r.first["dmarc"] = "pass"
  <2>1. CASE r.first["dmarc"] = None
    BY <2>1, AuthAssumption DEF DmarcRow, AuthResultClass, Result
  <2>2. CASE r.first["dmarc"] # None
    BY <1>1, <2>2, OnlyPassIsGreen DEF DmarcRow
  <2> QED
    BY <2>1, <2>2
<1>3. CalculateDMARCScore(r) = 100 <=> r.first["dmarc"] = "pass"
  BY DEF CalculateDMARCScore
<1>4. BimiRow(r) = "success" <=> r.first["bimi"] = "pass"
  <2>1. CASE r.first["bimi"] = None
    BY <2>1, AuthAssumption DEF BimiRow, Result
  <2>2. CASE r.first["bimi"] = "none"
    BY <2>2, AuthAssumption DEF BimiRow, Result
  <2>3. CASE r.first["bimi"] \notin {None, "none"}
    BY <1>1, <2>3, OnlyPassIsGreen DEF BimiRow
  <2> QED
    BY <2>1, <2>2, <2>3
<1>5. CalculateBIMIScore(r) = 100 <=> r.first["bimi"] = "pass"
  BY DEF CalculateBIMIScore
<1> QED
  BY <1>2, <1>3, <1>4, <1>5

\* Nothing on the card is anything but green: no verdict costs anything.
LEMMA AllGreen ==
  ASSUME NEW r \in Results,
         MainRows(r) \cup OptionalRows(r) \cup SpfHeloRows(r) = {"success"}
  PROVE  CalculateAuthenticationScore(r) = 100
<1>1. /\ SpfRow(r) = "success" /\ DmarcRow(r) = "success" /\ BimiRow(r) = "success"
      /\ DkimRows(r) \subseteq {"success"}
      /\ OptionalRows(r) \subseteq {"success"} /\ SpfHeloRows(r) \subseteq {"success"}
  BY DEF MainRows
<1>2. DkimRows(r) = {"success"}
  <2>1. DkimRows(r) # {}
    <3>1. CASE r.dkim = << >>
      BY <3>1 DEF DkimRows
    <3>2. CASE r.dkim # << >>
      <4>1. DOMAIN r.dkim # {}
        BY <3>2, ResultsRead
      <4> QED
        BY <3>2, <4>1 DEF DkimRows
    <3> QED
      BY <3>1, <3>2
  <2> QED
    BY <1>1, <2>1
<1>3. /\ CalculateSPFScore(r) = 100 /\ CalculateDKIMScore(r) = 100
      /\ CalculateDMARCScore(r) = 100 /\ CalculateBIMIScore(r) = 100
  BY <1>1, <1>2, SpfGreen, DkimGreen, DmarcAndBimiGreen
<1>4. CalculateSPFHeloScore(r) = 0
  <2>1. CASE r.spfHelo = None
    BY <2>1 DEF CalculateSPFHeloScore
  <2>2. CASE r.spfHelo # None
    <3>1. AuthResultClass(r.spfHelo.result, TRUE) = "success"
      BY <1>1, <2>2 DEF SpfHeloRows
    <3>2. r.spfHelo.result = "pass"
      BY <2>2, <3>1, ResultsRead, OnlyPassIsGreen
    <3> QED
      BY <2>2, <3>2 DEF CalculateSPFHeloScore
  <2> QED
    BY <2>1, <2>2
<1>5. ASSUME NEW m \in {"iprev", "x-tls", "x-google-dkim", "x-aligned-from"}
      PROVE  r.first[m] \in {None, "pass"}
  <2>1. r.first[m] \in Result \cup {None}
    BY ResultsRead DEF FirstOnly
  <2>2. CASE r.first[m] # None
    <3> DEFINE b == (m \in {"iprev", "x-ptr", "x-tls"})
    <3>1. AuthResultClass(r.first[m], b) = "success"
      BY <1>1, <2>2 DEF OptionalRows
    <3>2. b \in BOOLEAN
      OBVIOUS
    <3> HIDE DEF b
    <3> QED
      BY <2>1, <2>2, <3>1, <3>2, OnlyPassIsGreen
  <2> QED
    BY <2>2
<1>6. Penalties(r) = 0
  <2>1. r.first["x-aligned-from"] # "fail"
    BY <1>5, AuthAssumption DEF Result
  <2>2. /\ r.first["iprev"] \in {None, "pass"} /\ r.first["x-google-dkim"] \in {None, "pass"}
        /\ r.first["x-tls"] \in {None, "pass"}
    BY <1>5
  <2>3. Quo(5 * CalculateSPFHeloScore(r), 100) = 0
    BY <1>4 DEF Quo
  <2> QED
    BY <2>1, <2>2, <2>3 DEF Penalties
<1>7. AuthenticationPoints(r) = 100
  BY <1>3, <1>6 DEF AuthenticationPoints
<1> QED
  BY <1>7 DEF CalculateAuthenticationScore, Within

LEMMA LinesAgree ==
  ASSUME NEW h \in Headers, NEW dkim \in SUBSET Relation,
         h.from \in {"plain", "noreply"}, h.returnPath # None \/ dkim # {}
  PROVE  /\ AlignmentIcon(h, dkim) = "success" <=> TRUE \in AlignmentLines(h, dkim, {"same"})
         /\ AlignmentIcon(h, dkim) # "danger" <=> TRUE \in AlignmentLines(h, dkim, {"same", "org"})
<1>1. ASSUME NEW accepted
      PROVE  Agrees(h, dkim, accepted) <=> TRUE \in AlignmentLines(h, dkim, accepted)
  <2>1. ~(h.returnPath = None /\ dkim \cap Relation = {})
    OBVIOUS
  <2>2. Agrees(h, dkim, accepted) <=> h.returnPath \in accepted \/ dkim \cap accepted # {}
    BY <2>1 DEF Agrees
  <2>3. TRUE \in AlignmentLines(h, dkim, accepted)
          <=> h.returnPath \in accepted \/ \E d \in dkim : d \in accepted
    BY DEF AlignmentLines
  <2> QED
    BY <2>2, <2>3
<1>2. Aligned(h, dkim) => RelaxedAligned(h, dkim)
  BY DEF Aligned, RelaxedAligned, Agrees
<1>3. AlignmentIcon(h, dkim) = "success" <=> Aligned(h, dkim)
  BY DEF AlignmentIcon
<1>4. AlignmentIcon(h, dkim) # "danger" <=> RelaxedAligned(h, dkim)
  BY <1>2 DEF AlignmentIcon
<1> QED
  BY <1>1, <1>3, <1>4 DEF Aligned, RelaxedAligned

LEMMA EquivalentBooleans ==
  ASSUME NEW a \in BOOLEAN, NEW b \in BOOLEAN, a <=> b
  PROVE  a = b
BY Zenon

\* AuthenticationCard.svelte:33-60 and HeaderAnalysisCard.svelte:66-270: for any
\* verdicts and any headers, the colours say what authentication.go and
\* headers.go gave points for.
THEOREM Colours == Spec => []GreenMeansFullPoints
<1>1. JobInv /\ AuthTypeOK => GreenMeansFullPoints
  <2> SUFFICES ASSUME JobInv, AuthTypeOK
               PROVE  GreenMeansFullPoints
    OBVIOUS
  <2>1. results \in Results
    BY DEF AuthTypeOK
  <2>2. (SpfRow(results) = "success") = (CalculateSPFScore(results) = 100)
    BY <2>1, SpfGreen
  <2>3. (DkimRows(results) = {"success"}) = (CalculateDKIMScore(results) = 100)
    BY <2>1, DkimGreen
  <2>4. /\ (DmarcRow(results) = "success") = (CalculateDMARCScore(results) = 100)
        /\ (BimiRow(results) = "success") = (CalculateBIMIScore(results) = 100)
    BY <2>1, DmarcAndBimiGreen
  <2>5. MainRows(results) \cup OptionalRows(results) \cup SpfHeloRows(results) = {"success"} =>
          CalculateAuthenticationScore(results) = 100
    BY <2>1, AllGreen
  <2>6. ASSUME Reported, message.headers.from \in {"plain", "noreply"},
               message.headers.returnPath # None \/ DkimDomains # {}
        PROVE  LET Passes(accepted) == TRUE \in AlignmentLines(message.headers, DkimDomains, accepted)
                   icon == AlignmentIcon(message.headers, DkimDomains)
               IN  (icon = "success") = Passes({"same"}) /\ (icon # "danger") = Passes({"same", "org"})
    <3>1. message.headers \in Headers
      BY <2>6, Mail DEF Reported, Message
    <3>2. DkimDomains \in SUBSET Relation
      <4>1. \A k \in DOMAIN results.dkim : results.dkim[k] \in DkimVerdict
        BY <2>1, Places, ResultsRead
      <4> QED
        BY <4>1 DEF DkimDomains, DkimVerdict
    <3> DEFINE icon == AlignmentIcon(message.headers, DkimDomains)
               strict == TRUE \in AlignmentLines(message.headers, DkimDomains, {"same"})
               relaxed == TRUE \in AlignmentLines(message.headers, DkimDomains, {"same", "org"})
    <3>3. (icon = "success" <=> strict) /\ (icon # "danger" <=> relaxed)
      BY <2>6, <3>1, <3>2, LinesAgree
    <3>4. strict \in BOOLEAN /\ relaxed \in BOOLEAN
      OBVIOUS
    <3> HIDE DEF icon, strict, relaxed
    <3>5. (icon = "success") = strict /\ (icon # "danger") = relaxed
      BY <3>3, <3>4, EquivalentBooleans
    <3> QED
      BY <3>5, Zenon DEF icon, strict, relaxed
  <2> QED
    BY <2>2, <2>3, <2>4, <2>5, <2>6 DEF GreenMeansFullPoints
<1> QED
  BY <1>1, Jobs, Verdicts, PTL

-----------------------------------------------------------------------------
(* The path                                                                *)

\* From the fallback on, a verdict no field gave is what the topmost hop says, and
\* the entry is the hop that was flagged; the report comes last.
Fallen == {"dns", "blocklists", "allowlists", "spam", "content", "report", "done"}
PathInv ==
  job # None =>
    /\ stage \in (BeforeFallback \ {"lookup"}) \cup Fallen
    /\ stage \in {"tls"} \cup Fallen =>
         inbound = InboundHopIndex(message.chain, message.source)
    /\ stage \in Fallen /\ ~Said /\ message.source = "received" =>
         results.first["x-tls"] = ReconciledTLS(message.chain)
    /\ answer # None => stage = "done"

LEMMA PathStep ==
  ASSUME TLSInv, PathInv, [Next]_vars
  PROVE  PathInv'
<1> SUFFICES ASSUME job # None, job' = job
             PROVE  PathInv'
  BY JobStep DEF PathInv
<1>1. /\ stage \in (BeforeFallback \ {"lookup"}) \cup Fallen
      /\ stage \in {"tls"} \cup Fallen =>
           inbound = InboundHopIndex(message.chain, message.source)
      /\ stage \in Fallen /\ ~Said /\ message.source = "received" =>
           results.first["x-tls"] = ReconciledTLS(message.chain)
      /\ answer # None => stage = "done"
  BY DEF PathInv
<1>2. message' = message
  BY DEF message
<1>3. CASE AnalyzeAuthentication
  BY <1>1, <1>3 DEF AnalyzeAuthentication, Then, PathInv, BeforeFallback, Fallen
<1>4. CASE FlagInboundHop
  BY <1>1, <1>2, <1>4 DEF FlagInboundHop, Then, PathInv, BeforeFallback, Fallen
<1>5. CASE FallBackOnHops
  <2>1. /\ stage = "tls" /\ stage' = "dns" /\ inbound' = inbound /\ answer' = answer
        /\ fields' = fields /\ authority' = authority
    BY <1>5 DEF FallBackOnHops, Then, ReconcileXTLS, authVars
  <2>2. Said' <=> Said
    BY <2>1 DEF Said, Trusted, Readable
  <2>3. ASSUME ~Said, message.source = "received"
        PROVE  results'.first["x-tls"] = ReconciledTLS(message.chain)
    <3>1. results' = [results EXCEPT !.first["x-tls"] = Keep(@, ReconciledTLS(message.chain))]
      BY <1>5, <2>3 DEF FallBackOnHops, Reconciles, ReconcileXTLS
    <3>2. Shape(results) /\ results.first["x-tls"] = None
      BY <2>1, <2>3 DEF TLSInv, BeforeFallback
    <3>3. results'.first["x-tls"] = Keep(results.first["x-tls"], ReconciledTLS(message.chain))
      BY <3>1, <3>2 DEF Shape, FirstOnly
    <3> QED
      BY <3>2, <3>3 DEF Keep
  <2> QED
    BY <1>1, <1>2, <2>1, <2>2, <2>3 DEF PathInv, Fallen
<1>6. CASE /\ UNCHANGED <<authVars, inbound>>
           /\ \/ stage = "headers" /\ stage' = "hop"
              \/ stage' = stage
              \/ stage \in Fallen /\ stage' \in Fallen
           /\ \/ answer' = answer /\ (answer # None => stage' = stage)
              \/ stage' = "done"
  <2>1. /\ fields' = fields /\ authority' = authority /\ results' = results /\ inbound' = inbound
    BY <1>6 DEF authVars
  <2>2. Said' <=> Said
    BY <2>1 DEF Said, Trusted, Readable
  <2> QED
    BY <1>1, <1>2, <1>6, <2>1, <2>2 DEF PathInv, BeforeFallback, Fallen
<1>7. CASE GenerateHeaderAnalysis \/ AnalyzeDNS \/ CheckBlockLists \/ CheckAllowLists
  <2>1. UNCHANGED <<authVars, inbound, answer>>
    BY <1>7 DEF GenerateHeaderAnalysis, AnalyzeDNS, CheckBlockLists, CheckAllowLists
  <2>2. \/ stage = "headers" /\ stage' = "hop"
        \/ stage \in Fallen \ {"done"} /\ stage' \in Fallen
    BY <1>7 DEF GenerateHeaderAnalysis, AnalyzeDNS, CheckBlockLists, CheckAllowLists, Then, Fallen
  <2> QED
    BY <1>1, <1>6, <2>1, <2>2
<1>8. CASE AnalyzeSpam \/ AnalyzeContent \/ GenerateReport
  <2>1. UNCHANGED <<authVars, inbound>>
    BY <1>8 DEF AnalyzeSpam, AnalyzeContent, GenerateReport
  <2>2. stage \in Fallen \ {"done"} /\ stage' \in Fallen /\ (answer' = answer \/ stage' = "done")
    BY <1>8 DEF AnalyzeSpam, AnalyzeContent, GenerateReport, Then, Fallen
  <2> QED
    BY <1>1, <1>6, <2>1, <2>2
<1>9. CASE LookUp \/ CheckBlacklistIP
  BY <1>1, <1>9 DEF LookUp, CheckBlacklistIP, BeforeFallback, Fallen
<1>10. CASE UNCHANGED vars
  <2>1. UNCHANGED <<authVars, inbound, answer, stage>>
    BY <1>10 DEF vars, reportVars
  <2> QED
    BY <1>6, <2>1
<1> QED
  BY <1>3, <1>4, <1>5, <1>7, <1>8, <1>9, <1>10 DEF Next

LEMMA PathInitial ==
  ASSUME Init
  PROVE  PathInv
BY DEF Init, PathInv, BeforeFallback, Fallen

\* The entry is a hop of the chain.
LEMMA EntryInChain ==
  ASSUME NEW chain \in Seq(Hop), chain # << >>, NEW source
  PROVE  InboundHopIndex(chain, source) \in DOMAIN chain
<1> DEFINE entries == {i \in DOMAIN chain :
             /\ ~LocalDelivery(chain[i]) /\ chain[i].ip = "public"
             /\ \A j \in 1..(i - 1) : Passed(chain[j])}
<1>1. Len(chain) \in Nat \ {0} /\ DOMAIN chain = 1..Len(chain)
  BY EmptySeq
<1>2. CASE source # "uploaded" \/ entries = {}
  BY <1>1, <1>2 DEF InboundHopIndex
<1>3. CASE ~(source # "uploaded" \/ entries = {})
  <2>1. InboundHopIndex(chain, source) = CHOOSE i \in entries : TRUE
    BY <1>3 DEF InboundHopIndex
  <2>2. entries # {} /\ entries \subseteq DOMAIN chain
    BY <1>3
  <2> HIDE DEF entries
  <2> QED
    BY <2>1, <2>2
<1> QED
  BY <1>2, <1>3

LEMMA BadgeOfTheHop ==
  ASSUME NEW chain \in Seq(Hop), chain # << >>
  PROVE  TLSBadge(chain[1]) = ReconciledTLS(chain)
<1>1. Len(chain) \in Nat \ {0} /\ DOMAIN chain = 1..Len(chain)
  BY EmptySeq
<1>2. chain[1] \in Hop
  BY <1>1
<1> DEFINE hop == chain[1]
<1>3. hop.with \in Transport \cup {None}
  BY <1>2 DEF Hop
<1>4. ReconciledTLS(chain) =
        IF hop.tls \/ hop.with \in IndicatesTLS THEN "pass"
        ELSE IF hop.with # None THEN "none" ELSE None
  BY Zenon DEF ReconciledTLS
<1> HIDE DEF hop
<1>5. ASSUME hop.tls PROVE TLSBadge(hop) = ReconciledTLS(chain)
  <2>1. TLSBadge(hop) = "pass"
    BY <1>5, Zenon DEF TLSBadge
  <2> QED
    BY <1>4, <1>5, <2>1, Zenon
<1>6. ASSUME ~hop.tls PROVE TLSBadge(hop) = ReconciledTLS(chain)
  <2>1. ReconciledTLS(chain) = IF hop.with \in IndicatesTLS THEN "pass"
                               ELSE IF hop.with # None THEN "none" ELSE None
    BY <1>4, <1>6, Zenon
  <2>2. CASE hop.with \in {"ESMTPS", "LMTPS"}
    <3>1. TLSBadge(hop) = "pass"
      BY <1>6, <2>2 DEF TLSBadge
    <3> QED
      BY <2>1, <2>2, <3>1 DEF IndicatesTLS
  <2>3. CASE hop.with \in {"ESMTP", "LMTP"}
    <3>1. TLSBadge(hop) = "none"
      BY <1>6, <2>3 DEF TLSBadge
    <3> QED
      BY <2>1, <2>3, <3>1, HopAssumption DEF IndicatesTLS, Transport
  <2>4. CASE hop.with = None
    <3>1. TLSBadge(hop) = None
      BY <1>6, <2>4, HopAssumption DEF TLSBadge, Transport
    <3> QED
      BY <2>1, <2>4, <3>1, HopAssumption DEF IndicatesTLS, Transport
  <2> QED
    BY <1>3, <2>2, <2>3, <2>4 DEF Transport
<1> QED
  BY <1>5, <1>6 DEF hop

\* EmailPathCard.svelte:15-21 and report.go:140-163: for any chain and any fields,
\* the badge of the entry of a received message is the verdict of the card, and
\* the summary counts the hops that are not the recipient's own.
THEOREM Path == Spec => []PathAgrees
<1>1. Init => TLSInv /\ PathInv
  BY TLSInitial, PathInitial
<1>2. TLSInv /\ PathInv /\ [Next]_vars => TLSInv' /\ PathInv'
  BY TLSStep, PathStep
<1>3. JobInv /\ PathInv => PathAgrees
  <2> SUFFICES ASSUME JobInv, PathInv, Reported, message.chain # << >>
               PROVE  PathAgrees
    BY DEF PathAgrees
  <2> DEFINE chain == message.chain
  <2>1. chain \in Seq(Hop) /\ message.source \in {"received", "uploaded"}
    BY Mail DEF Reported, Message
  <2>2. /\ stage \in Fallen
        /\ inbound = InboundHopIndex(chain, message.source)
        /\ ~Said /\ message.source = "received" => results.first["x-tls"] = ReconciledTLS(chain)
    BY DEF PathInv, Reported, Fallen
  <2>3. inbound \in DOMAIN chain /\ DOMAIN chain = 1..Len(chain) /\ Len(chain) \in Nat
    BY <2>1, <2>2, EntryInChain
  <2>4. EntryIndex(chain) = inbound
    BY <2>3 DEF EntryIndex
  <2>5. ASSUME ~Said, message.source = "received"
        PROVE  results.first["x-tls"] = TLSBadge(chain[EntryIndex(chain)])
    <3>1. inbound = 1
      BY <2>2, <2>5 DEF InboundHopIndex
    <3> QED
      BY <2>1, <2>2, <2>4, <2>5, <3>1, BadgeOfTheHop
  <2>6. HopCount(chain) + 1 = Cardinality({i \in DOMAIN chain : ~Internal(chain, i)})
    <3>1. {i \in DOMAIN chain : ~Internal(chain, i)} = inbound..Len(chain)
      BY <2>3 DEF Internal
    <3>2. Cardinality(inbound..Len(chain)) = Len(chain) - inbound + 1
      BY <2>3, FS_Interval
    <3>3. HopCount(chain) + 1 = Len(chain) - inbound + 1
      BY <2>3, <2>4 DEF HopCount
    <3> QED
      BY <3>1, <3>2, <3>3
  <2> QED
    BY <2>5, <2>6 DEF PathAgrees, Said
<1> QED
  BY <1>1, <1>2, <1>3, Jobs, PTL DEF Spec

-----------------------------------------------------------------------------
(* Scores and letters                                                      *)

Gradings == {NotRun, "A++", "A+", "A", "B", "C", "D", "E", "F", "G", "H", "I"}
\* What a category can come to: never more than a hundred.
Judgement == [score : {s \in Int : s <= 100}, grade : Gradings]
\* Nothing left to ask for.
Pleased(j) == j.grade \in {"A", "A+", "A++"} \/ j.score >= 100

LEMMA Division ==
  ASSUME NEW n \in Nat, n > 0, NEW x \in Nat
  PROVE  /\ x \div n \in Nat
         /\ x \div n = 0 => x < n
         /\ \A k \in Nat : n * k <= x => k <= x \div n
<1> DEFINE q == x \div n
<1>1. q \in Nat /\ n * q <= x /\ x < n * q + n
  OBVIOUS
<1> HIDE DEF q
<1>2. ASSUME NEW k \in Nat, n * k <= x
      PROVE  k <= q
  <2>1. n * k < n * q + n
    BY <1>1, <1>2
  <2>2. n * q + n = n * (q + 1)
    BY <1>1
  <2>3. ASSUME k >= q + 1 PROVE n * k >= n * (q + 1)
    BY <1>1, <2>3
  <2> QED
    BY <1>1, <2>1, <2>2, <2>3
<1>3. q = 0 => x < n
  BY <1>1
<1> QED
  BY <1>1, <1>2, <1>3 DEF q

LEMMA OfGraded ==
  ASSUME NEW s \in Int
  PROVE  /\ Of(s) \in Gradings \ {NotRun}
         /\ Of(s) \in {"A", "A+", "A++"} => s >= 95
BY DEF Of, Gradings, NotRun

LEMMA GradedJudged ==
  ASSUME NEW s \in Int, s <= 100
  PROVE  /\ Graded(s) \in Judgement /\ Graded(s).grade # NotRun
         /\ Pleased(Graded(s)) => s >= 95
<1>1. Graded(s).score = s /\ Graded(s).grade = Of(s)
  BY DEF Graded
<1>2. Graded(s) \in Judgement
  BY OfGraded DEF Judgement, Graded
<1> QED
  BY <1>1, <1>2, OfGraded DEF Pleased

LEMMA MinGraded ==
  ASSUME NEW g \in Gradings, NEW h \in Gradings
  PROVE  /\ MinGrade(g, h) \in {g, h}
         /\ MinGrade(g, h) \in {"A", "A+", "A++"} => g \in {"A", "A+", "A++"} /\ h \in {"A", "A+", "A++"}
<1>1. ASSUME NEW k \in Gradings
      PROVE  GradeRank(k) \in 0..7 /\ (GradeRank(k) >= 5 <=> k \in {"A", "A+", "A++"})
  <2>1. CASE k \in {"A", "A+", "A++"}
    BY <2>1 DEF GradeRank
  <2>2. CASE k \in {"B", "C", "D", "E"}
    BY <2>2 DEF GradeRank
  <2>3. CASE k \in {"F", "G", "H", "I"}
    BY <2>3 DEF GradeRank
  <2>4. CASE k = NotRun
    <3>1. NotRun \notin {"A++", "A+", "A", "B", "C", "D", "E"}
      BY Zenon DEF NotRun
    <3>2. GradeRank(NotRun) = 0
      BY <3>1 DEF GradeRank
    <3> QED
      BY <2>4, <3>1, <3>2
  <2> QED
    BY <2>1, <2>2, <2>3, <2>4 DEF Gradings
<1> QED
  BY <1>1 DEF MinGrade

LEMMA RecordJudged ==
  ASSUME NEW s \in Int, s <= 100, NEW g \in Gradings
  PROVE  LET j == [score |-> s, grade |-> g] IN
         /\ j \in Judgement /\ j.score = s /\ j.grade = g
         /\ Pleased(j) <=> g \in {"A", "A+", "A++"} \/ s >= 100
BY DEF Judgement, Pleased

LEMMA SomeGradings ==
  /\ {"A+", "A", "F"} \subseteq Gradings \ {NotRun} /\ NotRun \in Gradings
  /\ "F" \notin {"A", "A+", "A++"} /\ NotRun \notin {"A", "A+", "A++"}
BY DEF Gradings, NotRun

LEMMA AssassinJudged ==
  ASSUME NEW r \in SpamAssassinResult \cup {None}
  PROVE  LET j == CalculateSpamAssassinScore(r) IN
         /\ j \in Judgement
         /\ j.grade = NotRun <=> r = None
         /\ r # None /\ Pleased(j) =>
              j.score = 100 /\ (r.score <= 0 \/ 100 * r.score < r.required)
<1> DEFINE j == CalculateSpamAssassinScore(r)
<1>1. CASE r = None
  <2>1. j = [score |-> 100, grade |-> NotRun]
    BY <1>1 DEF CalculateSpamAssassinScore
  <2> QED
    BY <1>1, <2>1, RecordJudged, SomeGradings
<1>2. CASE r # None
  <2>1. r.score \in Int /\ r.required \in Int
    BY <1>2 DEF SpamAssassinResult
  <2>2. CASE r.score <= 0
    <3>1. j = [score |-> 100, grade |-> "A+"] \/ j = [score |-> 100, grade |-> "A"]
      BY <1>2, <2>1, <2>2 DEF CalculateSpamAssassinScore
    <3> HIDE DEF j
    <3>2. j \in Judgement /\ j.score = 100 /\ j.grade # NotRun
      BY <3>1, RecordJudged, SomeGradings
    <3> QED
      BY <1>2, <2>2, <3>2 DEF j
  <2>3. CASE r.score > 0 /\ r.score >= r.required
    <3>1. j = [score |-> 0, grade |-> "F"]
      BY <1>2, <2>1, <2>3 DEF CalculateSpamAssassinScore
    <3> HIDE DEF j
    <3>2. j \in Judgement /\ j.grade # NotRun /\ ~Pleased(j)
      BY <3>1, RecordJudged, SomeGradings
    <3> QED
      BY <1>2, <3>2 DEF j
  <2>4. CASE r.score > 0 /\ r.score < r.required
    <3> DEFINE x == 2 * (r.score * 100) + 2 * r.required
               n == 2 * (2 * r.required)
               left == 100 - x \div n
    <3>1. Round(r.score * 100, 2 * r.required) = x \div n
      BY <2>1, <2>4 DEF Round
    <3>2. j = [score |-> left, grade |-> Of(left - 5)]
      BY <1>2, <2>1, <2>4, <3>1 DEF CalculateSpamAssassinScore
    <3>3. x \in Nat /\ n \in Nat /\ n > 0
      BY <2>1, <2>4
    <3>4. (x < n) => 100 * r.score < r.required
      BY <2>1, <2>4
    <3> HIDE DEF x, n
    <3>5. x \div n \in Nat /\ (x \div n = 0 => x < n)
      BY <3>3, Division
    <3> DEFINE q == x \div n
    <3> HIDE DEF q
    <3>6. left = 100 - q /\ q \in Nat /\ (q = 0 => 100 * r.score < r.required)
      BY <3>4, <3>5 DEF q
    <3> HIDE DEF left
    <3>7. left \in Int /\ left <= 100 /\ (left >= 100 => left = 100 /\ 100 * r.score < r.required)
      BY <3>6
    <3>8. Of(left - 5) \in Gradings \ {NotRun}
          /\ (Of(left - 5) \in {"A", "A+", "A++"} => left >= 100)
      <4>1. left - 5 \in Int /\ (left - 5 >= 95 => left >= 100)
        BY <3>7
      <4> QED
        BY <4>1, OfGraded
    <3> DEFINE g == Of(left - 5)
    <3> HIDE DEF j, g
    <3>9. /\ j \in Judgement /\ j.score = left /\ j.grade = g
          /\ Pleased(j) <=> g \in {"A", "A+", "A++"} \/ left >= 100
      BY <3>2, <3>7, <3>8, RecordJudged DEF g
    <3> QED
      BY <1>2, <3>7, <3>8, <3>9 DEF j, g
  <2> QED
    BY <2>1, <2>2, <2>3, <2>4
<1> QED
  BY <1>1, <1>2

LEMMA RspamdJudged ==
  ASSUME NEW r \in RspamdResult \cup {None}, r # None /\ r.threshold # None => r.threshold > 0
  PROVE  LET j == CalculateRspamdScore(r) IN
         /\ j \in Judgement
         /\ j.grade = NotRun <=> r = None
         /\ r # None /\ Pleased(j) => j.score >= 95
         /\ r # None /\ r.score >= EffectiveThreshold(r) => j.score = 0
<1> DEFINE j == CalculateRspamdScore(r)
<1>1. CASE r = None
  <2>1. j = [score |-> 100, grade |-> NotRun]
    BY <1>1 DEF CalculateRspamdScore
  <2> QED
    BY <1>1, <2>1, RecordJudged, SomeGradings
<1>2. CASE r # None
  <2> DEFINE t == EffectiveThreshold(r)
             q == Round(r.score * 100, t)
             left == 100 - q
  <2>1. r.score \in Int /\ r.threshold \in Int \cup {None}
    BY <1>2 DEF RspamdResult
  <2>2. t \in Nat /\ t > 0
    BY <1>2, <2>1 DEF EffectiveThreshold, OrElse, AddHeaderThreshold
  <2>3. j = IF left > 100 THEN [score |-> 100, grade |-> "A+"]
            ELSE IF left < 0 THEN [score |-> 0, grade |-> "F"]
            ELSE [score |-> left, grade |-> Of(left)]
    BY <1>2 DEF CalculateRspamdScore
  <2> HIDE DEF t, j
  <2>4. q \in Int /\ (r.score >= t => q >= 100)
    <3>1. CASE r.score >= 0
      <4> DEFINE x == 2 * (r.score * 100) + t
                 n == 2 * t
      <4>1. q = x \div n
        BY <2>1, <2>2, <3>1 DEF Round
      <4>2. x \in Nat /\ n \in Nat /\ n > 0 /\ (r.score >= t => n * 100 <= x)
        BY <2>1, <2>2, <3>1
      <4> HIDE DEF x, n, q
      <4>3. x \div n \in Nat /\ (n * 100 <= x => 100 <= x \div n)
        BY <4>2, Division
      <4> QED
        BY <4>1, <4>2, <4>3
    <3>2. CASE r.score < 0
      <4> DEFINE x == -2 * (r.score * 100) + t
                 n == 2 * t
      <4>1. q = -(x \div n)
        BY <2>1, <2>2, <3>2 DEF Round
      <4>2. x \in Nat /\ n \in Nat /\ n > 0
        BY <2>1, <2>2, <3>2
      <4> HIDE DEF x, n, q
      <4>3. x \div n \in Nat
        BY <4>2, Division
      <4> QED
        BY <2>1, <2>2, <3>2, <4>1, <4>3
    <3> QED
      BY <2>1, <3>1, <3>2
  <2> HIDE DEF q
  <2>5. left \in Int /\ (r.score >= t => left <= 0)
    BY <2>4
  <2> HIDE DEF left
  <2>6. Of(left) \in Gradings \ {NotRun} /\ (Of(left) \in {"A", "A+", "A++"} => left >= 95)
    BY <2>5, OfGraded
  <2>7. CASE left > 100
    <3>1. j = [score |-> 100, grade |-> "A+"]
      BY <2>3, <2>7
    <3>2. j \in Judgement /\ j.score = 100 /\ j.grade # NotRun
      BY <3>1, RecordJudged, SomeGradings
    <3> QED
      BY <1>2, <2>5, <2>7, <3>2 DEF j, t
  <2>8. CASE left < 0
    <3>1. j = [score |-> 0, grade |-> "F"]
      BY <2>3, <2>5, <2>8
    <3>2. j \in Judgement /\ j.score = 0 /\ j.grade # NotRun /\ ~Pleased(j)
      BY <3>1, RecordJudged, SomeGradings
    <3> QED
      BY <1>2, <3>2 DEF j, t
  <2>9. CASE left \in 0..100
    <3> DEFINE g == Of(left)
    <3>1. j = [score |-> left, grade |-> g]
      BY <2>3, <2>9
    <3>2. g \in Gradings \ {NotRun} /\ (g \in {"A", "A+", "A++"} => left >= 95)
      BY <2>6
    <3> HIDE DEF g
    <3>3. /\ j \in Judgement /\ j.score = left /\ j.grade = g
          /\ Pleased(j) <=> g \in {"A", "A+", "A++"} \/ left >= 100
      BY <2>9, <3>1, <3>2, RecordJudged
    <3>4. Pleased(j) => left >= 95
      BY <2>9, <3>2, <3>3
    <3> QED
      BY <1>2, <2>5, <2>9, <3>2, <3>3, <3>4 DEF j, t
  <2> QED
    BY <2>5, <2>7, <2>8, <2>9
<1> QED
  BY <1>1, <1>2

\* The two halves: who is pleased with the category is pleased with each of them.
LEMMA HalvesJudged ==
  ASSUME NEW sa \in Judgement, NEW rspamd \in Judgement
  PROVE  LET j == SpamCategory(sa, rspamd) IN
         /\ j \in Judgement
         /\ j.grade = NotRun <=> sa.grade = NotRun /\ rspamd.grade = NotRun
         /\ Pleased(j) => /\ sa.grade # NotRun => Pleased(sa)
                          /\ rspamd.grade # NotRun => Pleased(rspamd)
         /\ rspamd.grade = NotRun /\ sa.grade # NotRun => j.score = sa.score
         /\ rspamd.grade # NotRun /\ sa.grade = NotRun => j.score = rspamd.score
         /\ rspamd.grade # NotRun /\ sa.grade # NotRun =>
              j.score = (sa.score + rspamd.score) \div 2
<1> DEFINE j == SpamCategory(sa, rspamd)
           mean == (sa.score + rspamd.score) \div 2
           least == MinGrade(sa.grade, rspamd.grade)
<1>1. /\ sa.score \in Int /\ sa.score <= 100 /\ sa.grade \in Gradings
      /\ rspamd.score \in Int /\ rspamd.score <= 100 /\ rspamd.grade \in Gradings
  BY DEF Judgement
<1>2. CASE sa.grade = NotRun /\ rspamd.grade = NotRun
  <2>1. j = [score |-> 0, grade |-> NotRun]
    BY <1>2 DEF SpamCategory
  <2> HIDE DEF j
  <2> QED
    BY <1>2, <2>1, RecordJudged, SomeGradings DEF j
<1>3. CASE sa.grade = NotRun /\ rspamd.grade # NotRun
  <2>1. j = rspamd
    BY <1>3 DEF SpamCategory
  <2> HIDE DEF j
  <2> QED
    BY <1>3, <2>1 DEF j
<1>4. CASE sa.grade # NotRun /\ rspamd.grade = NotRun
  <2>1. j = sa
    BY <1>4 DEF SpamCategory
  <2> HIDE DEF j
  <2> QED
    BY <1>4, <2>1 DEF j
<1>5. CASE sa.grade # NotRun /\ rspamd.grade # NotRun
  <2>1. j = [score |-> mean, grade |-> least]
    BY <1>5 DEF SpamCategory
  <2>2. mean \in Int /\ mean <= 100 /\ (mean >= 100 => sa.score >= 100 /\ rspamd.score >= 100)
    BY <1>1
  <2>3. /\ least \in {sa.grade, rspamd.grade}
        /\ least \in {"A", "A+", "A++"} =>
             sa.grade \in {"A", "A+", "A++"} /\ rspamd.grade \in {"A", "A+", "A++"}
    BY <1>1, MinGraded
  <2> HIDE DEF mean, least
  <2>4. j.score = mean /\ j.grade = least
    BY <2>1
  <2>5. j \in Judgement
    BY <1>1, <2>1, <2>2, <2>3 DEF Judgement
  <2> HIDE DEF j
  <2> QED
    BY <1>5, <2>2, <2>3, <2>4, <2>5 DEF Pleased, j, mean
<1> QED
  BY <1>2, <1>3, <1>4, <1>5

LEMMA ContentJudged ==
  ASSUME NEW c \in Content
  PROVE  CalculateContentScore(c) \in Int /\ CalculateContentScore(c) <= 100
<1>1. BodyPoints(c) \in Int /\ c.suspicious \in Nat /\ c.harmful \in Nat
  BY BodyNumbers DEF Content
<1>2. Judged(c) \in Int
  BY <1>1 DEF Judged
<1>3. Smaller(c.suspicious, 5) \in Int /\ Smaller(20 * c.harmful, 40) \in Int
  BY <1>1 DEF Smaller
<1> QED
  BY <1>2, <1>3 DEF CalculateContentScore

LEMMA PointsAreNumbers ==
  ASSUME NEW r
  PROVE  /\ AuthenticationPoints(r) \in Int
         /\ CalculateAuthenticationScore(r) \in Int /\ CalculateAuthenticationScore(r) <= 100
         /\ CalculateAuthenticationScore(r) >= 95 => AuthenticationPoints(r) >= 95
<1>1. AuthenticationPoints(r) \in Int
  BY SPFPoints, DKIMPoints, DMARCPoints, BIMIPoints, PenaltiesCost DEF AuthenticationPoints
<1> QED
  BY <1>1 DEF CalculateAuthenticationScore, Within

LEMMA BlacklistJudged ==
  ASSUME BlockInv
  PROVE  [BlacklistScore EXCEPT !.grade = MinGrade(@, WhitelistGrade(allow.listed))] \in Judgement
<1> DEFINE n == ScoringLists(rbls, Informational)
           share == (block.relevant * 100) \div n
           flat == IF block.listed > block.relevant THEN 10 ELSE 0
           left == 100 - share - flat
           s == IF left < 0 THEN 0 ELSE left
           b == BlacklistScore
           w == WhitelistGrade(allow.listed)
<1>1. /\ rbls \in Seq(Lists) /\ block.listed \in Nat /\ block.relevant \in Nat
      /\ block.relevant <= block.listed
  BY DEF BlockInv, Counting
<1>2. n \in Int
  BY <1>1, ListNumbers
<1>3. n > 0 => share \in Nat
  <2> HIDE DEF n
  <2> QED
    BY <1>1, <1>2, Division
<1>4. \/ b = [score |-> 100, grade |-> NotRun]
      \/ b = [score |-> 100, grade |-> "A+"]
      \/ n > 0 /\ b = [score |-> s, grade |-> Of(s)]
  BY <1>2 DEF BlacklistScore, CalculateListScore
<1>5. w \in {"A++", "A+", "A"}
  BY DEF WhitelistGrade
<1> HIDE DEF n, share, b, w
<1>6. n > 0 => s \in Int /\ s <= 100
  BY <1>1, <1>3
<1> HIDE DEF s
<1>7. \E p \in Int, g \in Gradings : p <= 100 /\ b = [score |-> p, grade |-> g]
  BY <1>4, <1>6, SomeGradings, OfGraded
<1>8. PICK p \in Int, g \in Gradings : p <= 100 /\ b = [score |-> p, grade |-> g]
  BY <1>7
<1>9. [b EXCEPT !.grade = MinGrade(@, w)] = [score |-> p, grade |-> MinGrade(g, w)]
  BY <1>8
<1>10. w \in Gradings
  BY <1>5 DEF Gradings
<1>11. MinGrade(g, w) \in Gradings
  BY <1>10, MinGraded
<1> QED
  BY <1>8, <1>9, <1>11, RecordJudged DEF b, w

LEMMA Pairs ==
  ASSUME NEW a, NEW b, NEW c
  PROVE  IsFiniteSet({a, b}) /\ IsFiniteSet({a, b, c})
<1>1. IsFiniteSet({a})
  BY FS_Singleton
<1>2. {a, b} = {a} \cup {b} /\ {a, b, c} = {a, b} \cup {c}
  OBVIOUS
<1>3. IsFiniteSet({a} \cup {b})
  BY <1>1, FS_AddElement
<1>4. IsFiniteSet({a, b} \cup {c})
  BY <1>2, <1>3, FS_AddElement
<1> QED
  BY <1>2, <1>3, <1>4

LEMMA HeaderJudged ==
  ASSUME NEW h, NEW dkim
  PROVE  [score |-> HeaderScore(h, dkim), grade |-> HeaderGrade(h, dkim)] \in Judgement
<1>1. RequiredPresent(h) \in Nat
  <2> DEFINE S == {"from", "date", "message-id"}
             T == {x \in S : CASE x = "from" -> h.from # None
                               [] x = "date" -> h.date
                               [] OTHER      -> h.messageID # None}
  <2>1. IsFiniteSet(S)
    BY Pairs
  <2>2. IsFiniteSet(T)
    BY <2>1, FS_Subset
  <2>3. Cardinality(T) \in Nat
    BY <2>2, FS_CardinalityType
  <2> QED
    BY <2>3 DEF RequiredPresent
<1>2. IsFiniteSet(Recommended(h)) /\ Recommended(h) # {}
  <2>1. IsFiniteSet({"subject", "to"}) /\ IsFiniteSet({"subject", "to", "reply-to"})
    BY Pairs
  <2>2. Recommended(h) = {"subject", "to"} \/ Recommended(h) = {"subject", "to", "reply-to"}
    BY DEF Recommended
  <2> QED
    BY <2>1, <2>2
<1>3. RecommendedPresent(h) \in Nat
  <2> DEFINE T == {x \in Recommended(h) :
                     CASE x = "subject" -> h.subject [] x = "to" -> h.to [] OTHER -> h.replyTo}
  <2>1. IsFiniteSet(T)
    BY <1>2, FS_Subset
  <2>2. Cardinality(T) \in Nat
    BY <2>1, FS_CardinalityType
  <2> QED
    BY <2>2 DEF RecommendedPresent
<1>4. Cardinality(Recommended(h)) \in Nat /\ Cardinality(Recommended(h)) > 0
  BY <1>2, FS_CardinalityType, FS_EmptySet
<1>5. (RecommendedPresent(h) * 15) \div Cardinality(Recommended(h)) \in Nat
  BY <1>3, <1>4, Division
<1>6. AlignmentPoints(h, dkim) \in {0, 20, 25}
  BY DEF AlignmentPoints
<1>7. HeaderPoints(h, dkim) \in Int
  <2> DEFINE parts == IF h.parts THEN 20 ELSE 0
             mime == IF h.mimeVersion = "other" THEN 5 ELSE 0
             id == IF h.messageID = "valid" THEN 10 ELSE 0
             recommended == (RecommendedPresent(h) * 15) \div Cardinality(Recommended(h))
  <2>1. parts \in Int /\ mime \in Int /\ id \in Int
    OBVIOUS
  <2>2. HeaderPoints(h, dkim) =
          AlignmentPoints(h, dkim) + 10 * RequiredPresent(h) + recommended + parts - mime + id
    BY Zenon DEF HeaderPoints
  <2>3. recommended \in Int
    BY <1>5
  <2> HIDE DEF parts, mime, id, recommended
  <2> QED
    BY <1>1, <1>6, <2>1, <2>2, <2>3
<1>8. HeaderScore(h, dkim) \in Int /\ HeaderScore(h, dkim) <= 100
  BY <1>7 DEF HeaderScore
<1>9. HeaderGrade(h, dkim) \in Gradings
  <2> DEFINE best == IF RequiredPresent(h) < 3 THEN 1 ELSE IF RelaxedAligned(h, dkim) THEN 6 ELSE 4
             a == IF AllRecommended(h) THEN 0 ELSE 1
             b == IF h.parts THEN 0 ELSE 1
             c == IF h.messageID = "valid" THEN 0 ELSE 1
             d == 6 - MaxGrade(h, dkim) + 1
  <2>1. best \in {1, 4, 6} /\ a \in {0, 1} /\ b \in {0, 1} /\ c \in {0, 1}
    OBVIOUS
  <2>2. MaxGrade(h, dkim) = best - a - b - c
    BY Zenon DEF MaxGrade
  <2> HIDE DEF best, a, b, c
  <2>3. d \in 1..9
    BY <2>1, <2>2
  <2>4. HeaderGrade(h, dkim) = Letters[d]
    BY DEF HeaderGrade, LetterOf
  <2> HIDE DEF d
  <2> QED
    BY <2>3, <2>4 DEF Letters, Gradings
<1> QED
  BY <1>8, <1>9, RecordJudged

LEMMA DnsJudged ==
  ASSUME NEW m \in Message, NEW fromHop \in BOOLEAN
  PROVE  CalculateDNSScore(Found(m), fromHop) \in Judgement
<1> DEFINE f == Found(m)
<1>1. m.dns \in Findings
  BY DEF Message
<1>2. f \in Findings
  BY <1>1 DEF Found, NothingFound, Findings
<1> HIDE DEF f
<1>3. /\ f.mx \in Nat /\ f.spf \in Nat /\ f.dkim \in Nat /\ f.dmarc \in Nat /\ f.ptr \in Nat
      /\ f.lost \in Nat
  BY <1>2 DEF Findings
<1> DEFINE four == f.mx + f.spf + f.dkim + f.dmarc
           share == IF fromHop THEN (20 * (four + f.ptr)) \div 100 ELSE (20 * four) \div 80
           s == share - 10 * f.lost
<1>4. share \in Int
  BY <1>3
<1>5. CalculateDNSScore(f, fromHop) =
        IF f.bimi /\ s >= 100 THEN [score |-> 100, grade |-> "A+"]
        ELSE [score |-> Within(s), grade |-> Of(Within(s))]
  BY Zenon DEF CalculateDNSScore
<1> HIDE DEF share
<1>6. s \in Int
  BY <1>3, <1>4
<1> HIDE DEF s
<1>7. Within(s) \in Int /\ Within(s) <= 100
  BY <1>6 DEF Within
<1>8. [score |-> 100, grade |-> "A+"] \in Judgement
  BY RecordJudged, SomeGradings
<1>9. [score |-> Within(s), grade |-> Of(Within(s))] \in Judgement
  BY <1>7, OfGraded, RecordJudged
<1> QED
  BY <1>5, <1>8, <1>9 DEF f

-----------------------------------------------------------------------------
(* The letter of the report                                                *)

LEMMA OneMore ==
  ASSUME NEW S, IsFiniteSet(S), NEW x, x \notin S, NEW R
  PROVE  LET T == S \cup ({x} \cap R) IN
         /\ IsFiniteSet(T)
         /\ Cardinality(T) = Cardinality(S) + (IF x \in R THEN 1 ELSE 0)
<1>1. Cardinality(S) \in Nat
  BY FS_CardinalityType
<1>2. CASE x \in R
  <2>1. S \cup ({x} \cap R) = S \cup {x}
    BY <1>2
  <2> QED
    BY <1>2, <2>1, FS_AddElement
<1>3. CASE x \notin R
  <2> DEFINE T == S \cup ({x} \cap R)
  <2>1. T = S
    BY <1>3
  <2> HIDE DEF T
  <2>2. IsFiniteSet(T) /\ Cardinality(T) = Cardinality(S) + 0
    BY <1>1, <2>1
  <2> QED
    BY <1>3, <2>2 DEF T
<1> QED
  BY <1>2, <1>3

LEMMA RanCount ==
  ASSUME NEW R \in SUBSET Category
  PROVE  LET one(c) == IF c \in R THEN 1 ELSE 0 IN
         /\ IsFiniteSet(R)
         /\ Cardinality(R) = one("dns") + one("authentication") + one("blacklist")
                               + one("content") + one("header") + one("spam")
<1> DEFINE S1 == {} \cup ({"dns"} \cap R)
           S2 == S1 \cup ({"authentication"} \cap R)
           S3 == S2 \cup ({"blacklist"} \cap R)
           S4 == S3 \cup ({"content"} \cap R)
           S5 == S4 \cup ({"header"} \cap R)
           S6 == S5 \cup ({"spam"} \cap R)
<1>1. S1 \subseteq {"dns"} /\ S2 \subseteq {"dns", "authentication"}
      /\ S3 \subseteq {"dns", "authentication", "blacklist"}
      /\ S4 \subseteq {"dns", "authentication", "blacklist", "content"}
      /\ S5 \subseteq {"dns", "authentication", "blacklist", "content", "header"}
  OBVIOUS
<1>2. R = S6
  BY DEF Category
<1>3. IsFiniteSet(S1) /\ Cardinality(S1) = 0 + (IF "dns" \in R THEN 1 ELSE 0)
  BY FS_EmptySet, OneMore
<1> HIDE DEF S1
<1>4. IsFiniteSet(S2) /\ Cardinality(S2) = Cardinality(S1) + (IF "authentication" \in R THEN 1 ELSE 0)
  BY <1>1, <1>3, OneMore
<1> HIDE DEF S2
<1>5. IsFiniteSet(S3) /\ Cardinality(S3) = Cardinality(S2) + (IF "blacklist" \in R THEN 1 ELSE 0)
  BY <1>1, <1>4, OneMore
<1> HIDE DEF S3
<1>6. IsFiniteSet(S4) /\ Cardinality(S4) = Cardinality(S3) + (IF "content" \in R THEN 1 ELSE 0)
  BY <1>1, <1>5, OneMore
<1> HIDE DEF S4
<1>7. IsFiniteSet(S5) /\ Cardinality(S5) = Cardinality(S4) + (IF "header" \in R THEN 1 ELSE 0)
  BY <1>1, <1>6, OneMore
<1> HIDE DEF S5
<1>8. IsFiniteSet(S6) /\ Cardinality(S6) = Cardinality(S5) + (IF "spam" \in R THEN 1 ELSE 0)
  BY <1>1, <1>7, OneMore
<1> HIDE DEF S6
<1> QED
  BY <1>2, <1>3, <1>4, <1>5, <1>6, <1>7, <1>8

LEMMA Greatest ==
  ASSUME NEW S \in SUBSET (0..8), S # {}
  PROVE  Max(S) \in S /\ \A j \in S : j <= Max(S)
<1> DEFINE T == {8 - k : k \in S}
<1>1. T \in SUBSET Nat /\ T # {}
  <2>1. \A k \in S : k \in 0..8
    OBVIOUS
  <2>2. \A k \in S : 8 - k \in Nat
    BY <2>1
  <2> QED
    BY <2>2
<1>2. PICK t \in T : \A j \in T : t <= j
  BY <1>1, Least
<1>3. PICK k \in S : t = 8 - k
  BY <1>2
<1>4. \A j \in S : k >= j
  <2> SUFFICES ASSUME NEW j \in S PROVE k >= j
    OBVIOUS
  <2>1. 8 - j \in T
    OBVIOUS
  <2>2. t <= 8 - j
    BY <1>2, <2>1
  <2>3. k \in 0..8 /\ j \in 0..8
    OBVIOUS
  <2> QED
    BY <1>3, <2>2, <2>3
<1>5. Max(S) \in S /\ \A j \in S : Max(S) >= j
  BY <1>4 DEF Max
<1>6. Max(S) \in 0..8 /\ \A j \in S : j \in 0..8
  BY <1>5
<1> QED
  BY <1>5, <1>6

\* Whatever the other categories came to, an A for the report takes an A or all
\* points of each that ran.
LEMMA WellDone ==
  ASSUME NEW cs, \A c \in Category : cs[c] \in Judgement,
         Ran(cs) # {}, Letter(cs) \in {"A", "A+"}
  PROVE  \A c \in Ran(cs) : Pleased(cs[c])
<1> DEFINE R == Ran(cs)
           n == Cardinality(R)
           one == [c \in Category |-> IF c \in R THEN 1 ELSE 0]
           counted == [c \in Category |-> Counted(cs, c)]
<1>1. R \in SUBSET Category
  BY DEF Ran
<1>2. \A c \in Category : /\ cs[c].score \in Int /\ cs[c].score <= 100 /\ cs[c].grade \in Gradings
  BY DEF Judgement
<1>3. \A c \in R : cs[c].grade \in Gradings \ {NotRun}
  BY <1>1, <1>2 DEF Ran
<1>4. IsFiniteSet(R)
      /\ n = one["dns"] + one["authentication"] + one["blacklist"]
               + one["content"] + one["header"] + one["spam"]
  BY <1>1, RanCount DEF Category
<1>5. /\ \A c \in Category : counted[c] \in Int
      /\ \A c \in Category : one[c] \in Int
      /\ \A c \in Category : counted[c] <= 100 * one[c]
  BY <1>2 DEF Counted
<1>8. \A c \in R : c \in Category /\ one[c] = 1 /\ counted[c] = cs[c].score
  BY <1>1, <1>2 DEF Counted
<1>6. CASE Mean(cs) >= 100
  <2>1. Total(cs) = counted["dns"] + counted["authentication"] + counted["blacklist"]
                      + counted["content"] + counted["header"] + counted["spam"]
    BY DEF Total, Category
  <2>2. Mean(cs) = Total(cs) \div n
    BY DEF Mean
  <2>3. R # {}
    OBVIOUS
  <2> DEFINE t == Total(cs)
             q == t \div n
  <2> HIDE DEF R, one, counted
  <2>b. Category = {"dns", "authentication", "blacklist", "content", "header", "spam"}
    BY DEF Category
  <2>4. n \in Nat /\ n > 0
    BY <1>4, <2>3, FS_CardinalityType, FS_EmptySet
  <2> HIDE DEF n
  <2>5. t \in Int
    BY <1>5, <2>b, <2>1
  <2> HIDE DEF t
  <2>6. n * q <= t /\ q \in Int
    BY <2>4, <2>5
  <2>7. q >= 100
    BY <1>6, <2>2 DEF t
  <2> HIDE DEF q
  <2>8. n * q >= n * 100
    BY <2>4, <2>6, <2>7
  <2>9. t >= 100 * n
    BY <2>4, <2>5, <2>6, <2>8
  <2>10. \A c \in Category : counted[c] >= 100 * one[c]
    <3>1. counted["dns"] + counted["authentication"] + counted["blacklist"]
            + counted["content"] + counted["header"] + counted["spam"]
          >= 100 * (one["dns"] + one["authentication"] + one["blacklist"]
                      + one["content"] + one["header"] + one["spam"])
      BY <1>4, <2>1, <2>9 DEF t, n
    <3>2. /\ counted["dns"] >= 100 * one["dns"]
          /\ counted["authentication"] >= 100 * one["authentication"]
          /\ counted["blacklist"] >= 100 * one["blacklist"]
          /\ counted["content"] >= 100 * one["content"]
          /\ counted["header"] >= 100 * one["header"]
          /\ counted["spam"] >= 100 * one["spam"]
      <4>1. /\ counted["dns"] \in Int /\ one["dns"] \in Int /\ counted["dns"] <= 100 * one["dns"]
          /\ counted["authentication"] \in Int /\ one["authentication"] \in Int /\ counted["authentication"] <= 100 * one["authentication"]
          /\ counted["blacklist"] \in Int /\ one["blacklist"] \in Int /\ counted["blacklist"] <= 100 * one["blacklist"]
          /\ counted["content"] \in Int /\ one["content"] \in Int /\ counted["content"] <= 100 * one["content"]
          /\ counted["header"] \in Int /\ one["header"] \in Int /\ counted["header"] <= 100 * one["header"]
          /\ counted["spam"] \in Int /\ one["spam"] \in Int /\ counted["spam"] <= 100 * one["spam"]
        BY <1>5, <2>b
      <4> QED
        BY <4>1, <3>1, SMTT(60)
    <3> QED
      BY <2>b, <3>2
  <2>11. \A c \in R : cs[c].score >= 100
    <3> SUFFICES ASSUME NEW c \in R PROVE cs[c].score >= 100
      OBVIOUS
    <3>1. c \in Category /\ one[c] = 1 /\ counted[c] = cs[c].score
      BY <1>8
    <3>2. counted[c] >= 100 * one[c]
      BY <2>10, <3>1
    <3> QED
      BY <3>1, <3>2
  <2> QED
    BY <2>11 DEF Pleased, R
<1>7. CASE ~(Mean(cs) >= 100)
  <2> DEFINE D == {Distance(cs[c].grade) : c \in R}
  <2>1. D # {} /\ Letter(cs) = LetterOf(Max(D))
    BY <1>7 DEF Letter
  <2>2. ASSUME NEW g \in Gradings \ {NotRun}
        PROVE  Distance(g) \in 0..8 /\ (Distance(g) = 0 => g \in {"A", "A+", "A++"})
    <3>1. CASE g \in {"A+", "A++"}
      BY <3>1 DEF Distance
    <3>2. CASE g \notin {"A+", "A++"}
      <4>1. g \in {"A", "B", "C", "D", "E", "F", "G", "H", "I"}
        BY <3>2 DEF Gradings
      <4>2. \E d \in 0..8 : LetterOf(d) = g
        BY <4>1 DEF LetterOf, Letters
      <4>3. Distance(g) \in 0..8 /\ LetterOf(Distance(g)) = g
        BY <3>2, <4>2 DEF Distance
      <4>4. LetterOf(0) = "A"
        BY DEF LetterOf, Letters
      <4> QED
        BY <4>3, <4>4
    <3> QED
      BY <3>1, <3>2
  <2>3. D \subseteq 0..8
    BY <1>3, <2>2
  <2> HIDE DEF D
  <2>4. Max(D) \in D /\ \A d \in D : d <= Max(D)
    BY <2>1, <2>3, Greatest
  <2>5. Max(D) = 0
    <3>1. Max(D) \in 0..8
      BY <2>3, <2>4
    <3>2. LetterOf(Max(D)) \in {"A", "A+"}
      BY <2>1
    <3> QED
      BY <3>1, <3>2 DEF LetterOf, Letters
  <2>6. \A d \in D : d = 0
    BY <2>3, <2>4, <2>5
  <2>7. \A c \in R : cs[c].grade \in {"A", "A+", "A++"}
    BY <1>3, <2>2, <2>6 DEF D
  <2> QED
    BY <2>7 DEF Pleased
<1> QED
  BY <1>6, <1>7

-----------------------------------------------------------------------------
(* The sentence of the summary                                             *)

\* What is known of the categories at each stage, and the report at the end.
SpamJudged ==
  SpamCategory(CalculateSpamAssassinScore(AnalyzeSpamAssassin(message.spam)),
               CalculateRspamdScore(AnalyzeRspamd(message.spam)))
CardsInv ==
  job # None =>
    /\ stage \in (BeforeFallback \ {"lookup"}) \cup Fallen
    /\ categories = [c \in Category |-> categories[c]]
    /\ stage \in {"hop", "tls"} \cup Fallen => categories["header"] \in Judgement
    /\ stage \in Fallen \ {"dns"} => categories["dns"] \in Judgement
    /\ stage \in {"spam", "content", "report", "done"} => categories["blacklist"] \in Judgement
    /\ stage \in {"content", "report", "done"} => categories["spam"] = SpamJudged
    /\ stage \in {"report", "done"} =>
         /\ categories["content"] = Graded(CalculateContentScore(message.content))
         /\ categories["authentication"] = Graded(CalculateAuthenticationScore(results))
    /\ stage = "done" => answer = [score |-> Mean(categories), grade |-> Letter(categories)]

LEMMA CardsInitial ==
  ASSUME Init
  PROVE  CardsInv
BY DEF Init, CardsInv, BeforeFallback, Fallen, Verdictless

LEMMA Recording ==
  ASSUME categories = [c \in Category |-> categories[c]], NEW c \in Category, NEW found,
         Record(c, found)
  PROVE  /\ categories' = [d \in Category |-> categories'[d]]
         /\ categories'[c] = found
         /\ \A d \in Category \ {c} : categories'[d] = categories[d]
BY DEF Record

LEMMA CardsStep ==
  ASSUME JobInv, BlockInv, CardsInv, [Next]_vars
  PROVE  CardsInv'
<1> SUFFICES ASSUME job # None, job' = job
             PROVE  CardsInv'
  BY JobStep DEF CardsInv
<1>1. /\ stage \in (BeforeFallback \ {"lookup"}) \cup Fallen
      /\ categories = [c \in Category |-> categories[c]]
      /\ stage \in {"hop", "tls"} \cup Fallen => categories["header"] \in Judgement
      /\ stage \in Fallen \ {"dns"} => categories["dns"] \in Judgement
      /\ stage \in {"spam", "content", "report", "done"} => categories["blacklist"] \in Judgement
      /\ stage \in {"content", "report", "done"} => categories["spam"] = SpamJudged
      /\ stage \in {"report", "done"} =>
           /\ categories["content"] = Graded(CalculateContentScore(message.content))
           /\ categories["authentication"] = Graded(CalculateAuthenticationScore(results))
      /\ stage = "done" => answer = [score |-> Mean(categories), grade |-> Letter(categories)]
  BY DEF CardsInv
<1>2. message' = message /\ SpamJudged' = SpamJudged
  BY DEF message, SpamJudged
<1>3. message \in Message
  BY Mail
<1> USE DEF Then, BeforeFallback, Fallen
<1>4. CASE AnalyzeAuthentication \/ FlagInboundHop \/ FallBackOnHops \/ CheckBlockLists
  <2>1. /\ categories' = categories
        /\ \/ stage = "fields" /\ stage' \in {"fields", "headers"}
           \/ stage = "hop" /\ stage' = "tls"
           \/ stage = "tls" /\ stage' = "dns"
           \/ stage = "blocklists" /\ stage' \in {"blocklists", "allowlists"}
    BY <1>4 DEF AnalyzeAuthentication, FlagInboundHop, FallBackOnHops, CheckBlockLists
  <2> QED
    BY <1>1, <1>2, <2>1 DEF CardsInv
<1>5. CASE GenerateHeaderAnalysis
  <2> DEFINE found == [score |-> HeaderScore(message.headers, DkimDomains),
                       grade |-> HeaderGrade(message.headers, DkimDomains)]
  <2>1. stage = "headers" /\ stage' = "hop" /\ Record("header", found)
    BY <1>5 DEF GenerateHeaderAnalysis
  <2>2. found \in Judgement
    BY HeaderJudged
  <2> HIDE DEF found
  <2>3. categories' = [d \in Category |-> categories'[d]] /\ categories'["header"] = found
    BY <1>1, <2>1, Recording DEF Category
  <2> QED
    BY <1>1, <1>2, <2>1, <2>2, <2>3 DEF CardsInv
<1>6. CASE AnalyzeDNS
  <2> DEFINE found == CalculateDNSScore(Found(message), SenderIP(message, inbound))
  <2>1. stage = "dns" /\ stage' = "blocklists" /\ Record("dns", found)
    BY <1>6 DEF AnalyzeDNS
  <2>2. found \in Judgement
    <3>1. SenderIP(message, inbound) \in BOOLEAN
      BY DEF SenderIP
    <3> QED
      BY <1>3, <3>1, DnsJudged
  <2> HIDE DEF found
  <2>3. /\ categories' = [d \in Category |-> categories'[d]] /\ categories'["dns"] = found
        /\ categories'["header"] = categories["header"]
    BY <1>1, <2>1, Recording DEF Category
  <2> QED
    BY <1>1, <1>2, <2>1, <2>2, <2>3 DEF CardsInv
<1>7. CASE CheckAllowLists
  <2> DEFINE found == [BlacklistScore EXCEPT !.grade = MinGrade(@, WhitelistGrade(allow.listed))]
  <2>1. /\ stage = "allowlists"
        /\ \/ stage' = "allowlists" /\ categories' = categories
           \/ stage' = "spam" /\ Record("blacklist", found)
    BY <1>7 DEF CheckAllowLists
  <2>2. CASE stage' = "allowlists" /\ categories' = categories
    BY <1>1, <1>2, <2>1, <2>2 DEF CardsInv
  <2>3. CASE stage' = "spam" /\ Record("blacklist", found)
    <3>1. found \in Judgement
      BY BlacklistJudged
    <3> HIDE DEF found
    <3>2. /\ categories' = [d \in Category |-> categories'[d]] /\ categories'["blacklist"] = found
          /\ categories'["header"] = categories["header"] /\ categories'["dns"] = categories["dns"]
      BY <1>1, <2>3, Recording DEF Category
    <3> QED
      BY <1>1, <1>2, <2>1, <2>3, <3>1, <3>2 DEF CardsInv
  <2> QED
    BY <2>1, <2>2, <2>3
<1>8. CASE AnalyzeSpam
  <2>1. stage = "spam" /\ stage' = "content" /\ Record("spam", SpamJudged)
    BY <1>8 DEF AnalyzeSpam, SpamJudged
  <2>2. /\ categories' = [d \in Category |-> categories'[d]] /\ categories'["spam"] = SpamJudged
        /\ categories'["header"] = categories["header"] /\ categories'["dns"] = categories["dns"]
        /\ categories'["blacklist"] = categories["blacklist"]
    BY <1>1, <2>1, Recording DEF Category
  <2> QED
    BY <1>1, <1>2, <2>1, <2>2 DEF CardsInv
<1>9. CASE AnalyzeContent
  <2> DEFINE text == Graded(CalculateContentScore(message.content))
             verdicts == Graded(CalculateAuthenticationScore(results))
  <2>1. /\ stage = "content" /\ stage' = "report" /\ results' = results
        /\ categories' = [categories EXCEPT !["content"] = text, !["authentication"] = verdicts]
    BY <1>9 DEF AnalyzeContent, authVars
  <2>2. text' = text /\ verdicts' = verdicts
    BY <1>2, <2>1
  <2>3. /\ categories' = [d \in Category |-> categories'[d]]
        /\ categories'["content"] = text /\ categories'["authentication"] = verdicts
        /\ categories'["header"] = categories["header"] /\ categories'["dns"] = categories["dns"]
        /\ categories'["blacklist"] = categories["blacklist"]
        /\ categories'["spam"] = categories["spam"]
    BY <1>1, <2>1 DEF Category
  <2> QED
    BY <1>1, <1>2, <2>1, <2>2, <2>3 DEF CardsInv
<1>10. CASE GenerateReport
  <2>1. /\ stage = "report" /\ stage' = "done" /\ categories' = categories /\ results' = results
        /\ answer' = [score |-> Mean(categories), grade |-> Letter(categories)]
    BY <1>10 DEF GenerateReport, authVars
  <2> QED
    BY <1>1, <1>2, <2>1 DEF CardsInv
<1>11. CASE LookUp \/ CheckBlacklistIP
  BY <1>1, <1>11 DEF LookUp, CheckBlacklistIP
<1>12. CASE UNCHANGED vars
  <2>1. stage' = stage /\ categories' = categories /\ results' = results /\ answer' = answer
    BY <1>12 DEF vars, reportVars, authVars
  <2> QED
    BY <1>1, <1>2, <2>1 DEF CardsInv
<1> QED
  BY <1>4, <1>5, <1>6, <1>7, <1>8, <1>9, <1>10, <1>11, <1>12 DEF Next

\* What the two filters say, and what the category makes of it.
LEMMA SpamPleased ==
  ASSUME JobInv, job # None
  PROVE  LET a == AnalyzeSpamAssassin(message.spam)
             r == AnalyzeRspamd(message.spam)
             j == SpamJudged IN
         /\ j \in Judgement
         /\ j.grade = NotRun <=> a = None /\ r = None
         /\ Pleased(j) /\ j.grade # NotRun =>
              j.score >= 95 /\ (a # None => a.score <= 0 \/ 100 * a.score < a.required)
         /\ r # None /\ r.score >= EffectiveThreshold(r) => j.score <= 50
<1> DEFINE hs == message.spam
           a == AnalyzeSpamAssassin(hs)
           r == AnalyzeRspamd(hs)
           sa == CalculateSpamAssassinScore(a)
           rs == CalculateRspamdScore(r)
           j == SpamCategory(sa, rs)
<1>1. hs \in Seq(SpamHeader)
  BY Mail DEF Message
<1> HIDE DEF hs
<1>2. a \in SpamAssassinResult \cup {None}
  BY <1>1, SpamAssassinTyped
<1>3. r \in RspamdResult \cup {None} /\ (r # None /\ r.threshold # None => r.threshold > 0)
  BY <1>1, RspamdTyped
<1>4. SpamJudged = j
  BY DEF SpamJudged, hs
<1> HIDE DEF a, r
<1>5. /\ sa \in Judgement /\ (sa.grade = NotRun <=> a = None)
      /\ a # None /\ Pleased(sa) => sa.score = 100 /\ (a.score <= 0 \/ 100 * a.score < a.required)
  BY <1>2, AssassinJudged
<1>6. /\ rs \in Judgement /\ (rs.grade = NotRun <=> r = None)
      /\ r # None /\ Pleased(rs) => rs.score >= 95
      /\ r # None /\ r.score >= EffectiveThreshold(r) => rs.score = 0
  BY <1>3, RspamdJudged
<1> HIDE DEF sa, rs
<1>7. /\ j \in Judgement
      /\ j.grade = NotRun <=> sa.grade = NotRun /\ rs.grade = NotRun
      /\ Pleased(j) => /\ sa.grade # NotRun => Pleased(sa)
                       /\ rs.grade # NotRun => Pleased(rs)
      /\ rs.grade = NotRun /\ sa.grade # NotRun => j.score = sa.score
      /\ rs.grade # NotRun /\ sa.grade = NotRun => j.score = rs.score
      /\ rs.grade # NotRun /\ sa.grade # NotRun => j.score = (sa.score + rs.score) \div 2
  BY <1>5, <1>6, HalvesJudged
<1>8. sa.score \in Int /\ sa.score <= 100 /\ rs.score \in Int /\ rs.score <= 100
  BY <1>5, <1>6 DEF Judgement
<1> HIDE DEF j
<1>9. ASSUME Pleased(j), j.grade # NotRun
      PROVE  j.score >= 95 /\ (a # None => a.score <= 0 \/ 100 * a.score < a.required)
  <2>1. a # None => sa.score = 100 /\ (a.score <= 0 \/ 100 * a.score < a.required)
    BY <1>5, <1>7, <1>9
  <2>2. r # None => rs.score >= 95
    BY <1>6, <1>7, <1>9
  <2>3. j.score >= 95
    BY <1>5, <1>6, <1>7, <1>8, <1>9, <2>1, <2>2
  <2> QED
    BY <2>1, <2>3
<1>10. ASSUME r # None, r.score >= EffectiveThreshold(r)
       PROVE  j.score <= 50
  <2>1. rs.grade # NotRun /\ rs.score = 0
    BY <1>6, <1>10
  <2> QED
    BY <1>7, <1>8, <2>1
<1>11. j.grade = NotRun <=> a = None /\ r = None
  BY <1>5, <1>6, <1>7
<1> QED
  BY <1>4, <1>7, <1>9, <1>10, <1>11 DEF a, r, hs

LEMMA ClauseOfSpam ==
  ASSUME NEW assassin \in BOOLEAN, NEW content \in Int, NEW spam \in Int, NEW missing \in BOOLEAN
  PROVE  LET clause == SpamClause(assassin, content, spam, missing) IN
         /\ clause = "spam" <=> assassin
         /\ content >= 50 /\ (missing \/ spam >= 50) => clause \notin {"low", "improve"}
         /\ clause \in {"great", "good"} => missing \/ spam >= 90
<1>1. CASE assassin /\ missing
  BY <1>1 DEF SpamClause
<1>2. CASE assassin /\ ~missing
  BY <1>2 DEF SpamClause
<1>3. CASE ~assassin /\ missing
  BY <1>3 DEF SpamClause
<1>4. CASE ~assassin /\ ~missing
  BY <1>4 DEF SpamClause
<1> QED
  BY <1>1, <1>2, <1>3, <1>4

LEMMA FiltersMissing ==
  ASSUME JobInv, job # None
  PROVE  HasNoSpamResults(Filters)
           <=> AnalyzeSpamAssassin(message.spam) = None /\ AnalyzeRspamd(message.spam) = None
<1> DEFINE hs == message.spam
           a == AnalyzeSpamAssassin(hs)
           r == AnalyzeRspamd(hs)
<1>1. hs \in Seq(SpamHeader)
  BY Mail DEF Message
<1> HIDE DEF hs
<1>2. a \in SpamAssassinResult \cup {None} /\ r \in RspamdResult \cup {None}
  BY <1>1, SpamAssassinTyped, RspamdTyped
<1>3. Filters = [spamassassin |-> a, rspamd |-> r]
  BY DEF Filters, hs
<1> HIDE DEF a, r
<1>4. Filters # None
  BY <1>2, <1>3, ViewAssumption
<1>5. Filters = [spamassassin |-> None, rspamd |-> None] <=> a = None /\ r = None
  BY <1>3
<1> QED
  BY <1>4, <1>5 DEF HasNoSpamResults, a, r, hs

LEMMA ReportRead ==
  ASSUME JobInv, PathInv, CardsInv, Reported
  PROVE  /\ \A c \in Category : categories[c] \in Judgement
         /\ "authentication" \in Ran(categories) /\ "content" \in Ran(categories)
         /\ categories["authentication"] = Graded(CalculateAuthenticationScore(results))
         /\ categories["content"] = Graded(CalculateContentScore(message.content))
         /\ categories["spam"] = SpamJudged
         /\ answer.grade = Letter(categories)
<1>1. stage = "done" /\ job # None
  BY DEF PathInv, Reported
<1>2. /\ categories["header"] \in Judgement /\ categories["dns"] \in Judgement
      /\ categories["blacklist"] \in Judgement
      /\ categories["spam"] = SpamJudged
      /\ categories["content"] = Graded(CalculateContentScore(message.content))
      /\ categories["authentication"] = Graded(CalculateAuthenticationScore(results))
      /\ answer = [score |-> Mean(categories), grade |-> Letter(categories)]
  BY <1>1 DEF CardsInv, Fallen
<1>3. categories["spam"] \in Judgement
  BY <1>1, <1>2, SpamPleased
<1>4. categories["authentication"] \in Judgement /\ categories["authentication"].grade # NotRun
  BY <1>2, PointsAreNumbers, GradedJudged
<1>5. categories["content"] \in Judgement /\ categories["content"].grade # NotRun
  <2>1. message.content \in Content
    BY <1>1, Mail DEF Message
  <2> QED
    BY <1>2, <2>1, ContentJudged, GradedJudged
<1>6. \A c \in Category : categories[c] \in Judgement
  BY <1>2, <1>3, <1>4, <1>5 DEF Category
<1>7. "authentication" \in Ran(categories) /\ "content" \in Ran(categories)
  BY <1>4, <1>5 DEF Ran, Category
<1> QED
  BY <1>2, <1>6, <1>7

LEMMA VerdictsPraised ==
  ASSUME NEW r \in Results, CalculateAuthenticationScore(r) >= 95
  PROVE  StatusClause(r) = "authenticated" /\ SignatureClause(r) = "valid"
<1>1. /\ CalculateSPFScore(r) = 100 /\ CalculateDKIMScore(r) > 20
      /\ CalculateDMARCScore(r) = 100
  BY PointsAreNumbers, EveryMethodIsNeeded
<1>2. /\ r.spf # None /\ r.spf.result = "pass"
      /\ \E k \in DOMAIN r.dkim : r.dkim[k].result = "pass"
  BY <1>1, SPFPoints, DKIMPoints
<1>3. r.dkim # << >>
  BY <1>2, ResultsRead
<1>4. ~HasNoAuthenticationResults(r)
  <2> DEFINE m == ReportedMechanisms(r)
  <2>1. m = <<TRUE, r.dkim # << >>, r.first["dmarc"] # None>>
    BY <1>2 DEF ReportedMechanisms
  <2>2. 1 \in DOMAIN m /\ m[1] = TRUE
    BY <2>1
  <2> HIDE DEF m
  <2>3. TRUE \in Range(m)
    BY <2>2, Zenon DEF Range
  <2> QED
    BY <2>3, ViewAssumption DEF HasNoAuthenticationResults, m
<1>5. StatusClause(r) = "authenticated"
  BY <1>2, <1>4 DEF StatusClause
<1>6. SignatureClause(r) = "valid"
  BY <1>2, <1>3 DEF SignatureClause
<1> QED
  BY <1>5, <1>6

\* SummaryCard.svelte over report.go:262-348: for any message, any configuration
\* and any lists, "well done" follows no clause that found fault by a score, and
\* no content is praised that one of the filters scored as spam.
THEOREM Praise == Spec => []PraiseIsEarned
<1>1. Init => BlockInv /\ TLSInv /\ PathInv /\ CardsInv
  BY ListInitial, TLSInitial, PathInitial, CardsInitial
<1>2. JobInv /\ BlockInv /\ TLSInv /\ PathInv /\ CardsInv /\ [Next]_vars
        => BlockInv' /\ TLSInv' /\ PathInv' /\ CardsInv'
  BY BlockStep, TLSStep, PathStep, CardsStep
<1>3. JobInv /\ AuthTypeOK /\ PathInv /\ CardsInv => PraiseIsEarned
  <2> SUFFICES ASSUME JobInv, AuthTypeOK, PathInv, CardsInv, Reported
               PROVE  PraiseIsEarned
    BY DEF PraiseIsEarned
  <2> DEFINE a == AnalyzeSpamAssassin(message.spam)
             r == AnalyzeRspamd(message.spam)
             assassin == a # None /\ a.isSpam
             content == categories["content"].score
             spam == categories["spam"].score
             missing == HasNoSpamResults(Filters)
             clause == ReportSpamClause
  <2>1. /\ \A c \in Category : categories[c] \in Judgement
        /\ "authentication" \in Ran(categories) /\ "content" \in Ran(categories)
        /\ categories["authentication"] = Graded(CalculateAuthenticationScore(results))
        /\ categories["content"] = Graded(CalculateContentScore(message.content))
        /\ categories["spam"] = SpamJudged
        /\ answer.grade = Letter(categories)
    BY ReportRead
  <2>2. job # None /\ message \in Message /\ results \in Results
    BY Mail DEF Reported, AuthTypeOK
  <2>3. Filters.spamassassin = a /\ Filters.rspamd = r
    BY DEF Filters
  <2>4. missing <=> a = None /\ r = None
    BY <2>2, FiltersMissing
  <2>5. /\ SpamJudged \in Judgement
        /\ SpamJudged.grade = NotRun <=> a = None /\ r = None
        /\ Pleased(SpamJudged) /\ SpamJudged.grade # NotRun =>
             SpamJudged.score >= 95 /\ (a # None => a.score <= 0 \/ 100 * a.score < a.required)
        /\ r # None /\ r.score >= EffectiveThreshold(r) => SpamJudged.score <= 50
    BY <2>2, SpamPleased
  <2>6. content \in Int /\ spam \in Int
    BY <2>1 DEF Category, Judgement
  <2>7. /\ clause = "spam" <=> assassin
        /\ content >= 50 /\ (missing \/ spam >= 50) => clause \notin {"low", "improve"}
        /\ clause \in {"great", "good"} => missing \/ spam >= 90
    <3>1. assassin \in BOOLEAN /\ missing \in BOOLEAN
      BY <2>2, SpamAssassinTyped DEF Message, SpamAssassinResult, HasNoSpamResults
    <3>2. clause = SpamClause(assassin, content, spam, missing)
      BY <2>3, Zenon DEF ReportSpamClause
    <3> HIDE DEF assassin, content, spam, missing, clause
    <3> QED
      BY <2>6, <3>1, <3>2, ClauseOfSpam
  <2>8. ASSUME ClosingClause(answer.grade) = "well done"
        PROVE  /\ StatusClause(results) = "authenticated" /\ SignatureClause(results) = "valid"
               /\ clause \notin {"low", "improve"}
               /\ clause = "spam" => a.score <= 0 \/ 100 * a.score < a.required
    <3>1. Letter(categories) \in {"A", "A+"}
      BY <2>1, <2>8 DEF ClosingClause
    <3>2. \A c \in Ran(categories) : Pleased(categories[c])
      BY <2>1, <3>1, WellDone
    <3>3. CalculateAuthenticationScore(results) >= 95
      BY <2>1, <3>2, PointsAreNumbers, GradedJudged
    <3>4. StatusClause(results) = "authenticated" /\ SignatureClause(results) = "valid"
      BY <2>2, <3>3, VerdictsPraised
    <3>5. content >= 95
      <4>1. message.content \in Content
        BY <2>2 DEF Message
      <4>2. Pleased(Graded(CalculateContentScore(message.content)))
        BY <2>1, <3>2
      <4>3. content = CalculateContentScore(message.content)
        BY <2>1 DEF Graded
      <4> QED
        BY <4>1, <4>2, <4>3, ContentJudged, GradedJudged
    <3>6. ~missing => spam >= 95 /\ (a # None => a.score <= 0 \/ 100 * a.score < a.required)
      <4> SUFFICES ASSUME ~missing
                   PROVE  spam >= 95 /\ (a # None => a.score <= 0 \/ 100 * a.score < a.required)
        OBVIOUS
      <4>1. SpamJudged.grade # NotRun
        BY <2>4, <2>5
      <4>2. "spam" \in Ran(categories)
        BY <2>1, <4>1 DEF Ran, Category
      <4>3. Pleased(SpamJudged)
        BY <2>1, <3>2, <4>2
      <4> QED
        BY <2>1, <2>5, <4>1, <4>3
    <3>7. assassin => a # None /\ ~missing
      BY <2>4
    <3> HIDE DEF a, r, assassin, content, spam, missing, clause
    <3> QED
      BY <2>6, <2>7, <3>4, <3>5, <3>6, <3>7
  <2>9. ASSUME clause \in {"great", "good"}
        PROVE  /\ a # None => ~a.isSpam
               /\ r # None => ~(r.isSpam /\ r.score > 0)
    <3>1. ~assassin
      BY <2>7, <2>9
    <3>2. ASSUME r # None, r.isSpam, r.score > 0
          PROVE  FALSE
      <4>1. spam >= 90
        BY <2>4, <2>7, <2>9, <3>2
      <4>2. message.spam \in Seq(SpamHeader)
        BY <2>2 DEF Message
      <4>3. /\ r.score = OrElse(RspamdScore(message.spam), 0)
            /\ RspamdScore(message.spam) # None => r.isSpam = (r.score >= EffectiveThreshold(r))
        BY <3>2, <4>2, RspamdTyped
      <4>4. RspamdScore(message.spam) # None
        BY <3>2, <4>3 DEF OrElse
      <4>5. r.score >= EffectiveThreshold(r)
        BY <3>2, <4>3, <4>4, Zenon
      <4>6. spam <= 50
        BY <2>1, <2>5, <3>2, <4>5
      <4> QED
        BY <2>6, <4>1, <4>6
    <3> QED
      BY <3>1, <3>2
  <2> QED
    BY <2>3, <2>8, <2>9 DEF PraiseIsEarned
<1> QED
  BY <1>1, <1>2, <1>3, Jobs, Verdicts, PTL DEF Spec
=============================================================================

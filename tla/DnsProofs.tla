------------------------------ MODULE DnsProofs ------------------------------
(***************************************************************************)
(* Theorems about DnsAnalysis and DnsView, for any zone, any depth limit   *)
(* and domains of any length.                                              *)
(*                                                                         *)
(* The SPF traversal, the DMARC walk and the BIMI discovery each have an   *)
(* inductive invariant of their own; a step of the analysis is a step of   *)
(* one of them or leaves all alone (AnalysisStep).                         *)
(***************************************************************************)
EXTENDS DnsView, WellFoundedInduction, TLAPS

-----------------------------------------------------------------------------
(* The first one in a list.                                                *)

\* A set of numbers that is not empty has a least one.
LEMMA Least ==
  ASSUME NEW S \in SUBSET Nat, S # {}
  PROVE  \E k \in S : \A j \in S : k <= j
<1>1. PICK k \in S : \A j \in S : ~(<<j, k>> \in OpToRel(<, Nat))
  BY NatLessThanWellFounded, WFMin
<1>2. \A j \in Nat : j < k => <<j, k>> \in OpToRel(<, Nat)
  BY Zenon DEF OpToRel
<1>3. \A j \in S : ~(j < k)
  BY <1>1, <1>2
<1>4. \A j \in S : k <= j
  BY <1>3
<1> QED
  BY <1>4

-----------------------------------------------------------------------------

LEMMA AnalysisStep ==
  ASSUME [Next]_vars
  PROVE  /\ ResolveSPFRecords \/ UNCHANGED spfVars
         /\ WalkDNS \/ UNCHANGED dmarcVars
         /\ CheckBIMI(CheckDMARCEnforcement(CheckDMARCRecord)) \/ UNCHANGED bimiVars
<1>1. CASE CheckSPFRecords
  BY <1>1 DEF CheckSPFRecords
<1>2. CASE CheckDMARC
  BY <1>2 DEF CheckDMARC
<1>3. CASE CheckMXRecords \/ CheckReturnOK \/ CheckBIMIRecord \/ CalculateDomainOnlyScore
  BY <1>3 DEF CheckMXRecords, CheckReturnOK, CheckBIMIRecord, CalculateDomainOnlyScore
<1>4. CASE UNCHANGED vars
  BY <1>4 DEF vars
<1> QED
  BY <1>1, <1>2, <1>3, <1>4 DEF Next

-----------------------------------------------------------------------------
(* The DMARC walk                                                          *)

\* What the walk has missed so far, and what it has spent on it: one query for
\* each label dropped, the shortcut of long domains counting for one.
WalkInv ==
  /\ DmarcTypeOK
  /\ \A k \in Walkable : k > Current => published[k] = Absent
  /\ dropped < labels => Current \in Walkable
  /\ queries = IF labels >= 8 /\ dropped > 0 THEN dropped - labels + 8 ELSE dropped
  /\ walk = "found" => dropped < labels /\ Governs(Current)
  /\ walk = "not found" => \A k \in Walkable : ~Governs(k)

\* The numbers of the walk, for the arithmetic below.
LEMMA WalkNumbers ==
  ASSUME DmarcTypeOK
  PROVE  /\ labels \in Nat /\ labels >= 1
         /\ dropped \in Nat /\ dropped <= labels
         /\ queries \in Nat /\ queries <= 8
         /\ Current = labels - dropped
         /\ \A k : k \in Walkable <=> k \in Nat /\ (k = labels \/ (1 <= k /\ k <= 7 /\ k <= labels))
<1>1. labels \in Nat /\ labels >= 1
  <2>1. labels \in 1..MaxLabels
    BY DEF DmarcTypeOK
  <2>2. MaxLabels \in Nat
    BY DmarcAssumption
  <2> QED
    BY <2>1, <2>2
<1>2. dropped \in Nat /\ dropped <= labels
  <2>1. dropped \in 0..labels
    BY DEF DmarcTypeOK
  <2> QED
    BY <1>1, <2>1
<1>3. queries \in Nat /\ queries <= 8
  <2>1. queries \in 0..8
    BY DEF DmarcTypeOK, MaxQueries
  <2> QED
    BY <2>1
<1>4. \A k : k \in Walkable <=> k \in Nat /\ (k = labels \/ (1 <= k /\ k <= 7 /\ k <= labels))
  BY <1>1 DEF Walkable
<1> QED
  BY <1>1, <1>2, <1>3, <1>4 DEF Current

LEMMA WalkInvInit ==
  ASSUME Init
  PROVE  WalkInv
<1>1. PICK s \in Scenarios : DmarcInit({s.dmarc})
  BY DEF Init
<1>2. /\ labels = s.dmarc.labels /\ published = s.dmarc.published
      /\ dropped = 0 /\ queries = 0 /\ walk = "walking"
  BY <1>1 DEF DmarcInit
<1>3. labels \in 1..MaxLabels /\ published \in [1..labels -> Tags \cup {Absent}]
  BY <1>2, ScenarioAssumption
<1>4. labels \in Nat /\ labels >= 1
  <2>1. MaxLabels \in Nat
    BY DmarcAssumption
  <2> QED
    BY <1>3, <2>1
<1>5. DmarcTypeOK
  BY <1>2, <1>3, <1>4 DEF DmarcTypeOK, MaxQueries
<1>6. Current = labels
  BY <1>2, <1>4 DEF Current
<1>7. \A k \in Walkable : k <= labels
  BY <1>5, WalkNumbers
<1>8. labels \in Walkable
  BY <1>5, WalkNumbers
<1>9. \A k \in Walkable : ~(k > Current)
  BY <1>4, <1>5, <1>6, <1>7, WalkNumbers
<1> QED
  BY <1>2, <1>4, <1>5, <1>6, <1>8, <1>9 DEF WalkInv

LEMMA WalkInvMiss ==
  ASSUME WalkInv, QueryMisses
  PROVE  WalkInv'
<1> DEFINE n == labels
           i == dropped
           i2 == IF i = 0 /\ n >= 8 THEN n - 7 ELSE i + 1
<1>1. DmarcTypeOK
  BY DEF WalkInv
<1>2. /\ n \in Nat /\ n >= 1 /\ i \in Nat /\ i < n /\ queries \in Nat /\ queries < 8
      /\ Current = n - i /\ published[n - i] = Absent /\ walk = "walking"
  BY <1>1, WalkNumbers DEF QueryMisses, Querying, MaxQueries
<1>3. /\ labels' = n /\ published' = published /\ dropped' = i2 /\ queries' = queries + 1
      /\ walk' = "walking"
  BY <1>2 DEF QueryMisses
<1>4. i2 \in Nat /\ i2 <= n /\ i2 > i
  BY <1>2
<1>5. DmarcTypeOK'
  BY <1>1, <1>2, <1>3, <1>4 DEF DmarcTypeOK, MaxQueries
<1>6. Current' = n - i2 /\ Walkable' = Walkable
  BY <1>3 DEF Current, Walkable
<1>7. \A k \in Walkable : k > n - i2 => published[k] = Absent
  <2> SUFFICES ASSUME NEW k \in Walkable, k > n - i2 PROVE published[k] = Absent
    OBVIOUS
  <2>1. k \in Nat /\ (k = n \/ (k <= 7 /\ k <= n))
    BY <1>1, WalkNumbers
  <2>2. k > n - i \/ k = n - i
    BY <1>2, <2>1
  <2> QED
    BY <1>2, <2>2 DEF WalkInv
<1>8. i2 < n => n - i2 \in Walkable
  <2>1. i2 < n => n - i2 \in Nat /\ 1 <= n - i2 /\ n - i2 <= n
    BY <1>2, <1>4
  <2>2. i2 < n /\ i > 0 => n - i \in Nat /\ (n - i = n \/ n - i <= 7)
    BY <1>1, <1>2, WalkNumbers DEF WalkInv
  <2>3. i2 < n => n - i2 <= 7
    BY <1>2, <2>2
  <2> QED
    BY <1>1, <2>1, <2>3, WalkNumbers
<1>9. queries + 1 = IF n >= 8 /\ i2 > 0 THEN i2 - n + 8 ELSE i2
  <2>1. queries = IF n >= 8 /\ i > 0 THEN i - n + 8 ELSE i
    BY DEF WalkInv
  <2> QED
    BY <1>2, <2>1
<1> QED
  BY <1>3, <1>5, <1>6, <1>7, <1>8, <1>9 DEF WalkInv

LEMMA WalkInvEnd ==
  ASSUME WalkInv, QueryFails \/ QueryFinds \/ Exhausted
  PROVE  WalkInv'
<1>1. DmarcTypeOK
  BY DEF WalkInv
<1>2. UNCHANGED <<labels, published, dropped, queries>> /\ walk' \in {"found", "not found", "failed"}
  BY DEF QueryFails, QueryFinds, Exhausted
<1>3. Current' = Current /\ Walkable' = Walkable /\ \A k : Governs(k)' = Governs(k)
  BY <1>2 DEF Current, Walkable, Governs
<1>4. DmarcTypeOK'
  BY <1>1, <1>2 DEF DmarcTypeOK
<1>5. walk' = "found" => dropped < labels /\ Governs(Current)
  <2>1. ASSUME walk' = "found" PROVE QueryFinds
    BY <2>1 DEF QueryFails, Exhausted
  <2>2. QueryFinds => dropped < labels /\ published[Current] # Absent
    BY DEF QueryFinds, Querying
  <2>3. QueryFinds /\ walk' = "found" => ~(Current = 1 /\ published[Current].psd # "y")
    BY DEF QueryFinds
  <2>4. dropped < labels => Current \in Nat /\ Current >= 1
    BY <1>1, WalkNumbers
  <2> QED
    BY <2>1, <2>2, <2>3, <2>4 DEF Governs
<1>6. ASSUME walk' = "not found" PROVE \A k \in Walkable : ~Governs(k)
  <2>1. \A k \in Walkable : k > Current => published[k] = Absent
    BY DEF WalkInv
  <2>2. CASE QueryFinds
    <3>1. Current = 1 /\ published[Current].psd # "y"
      BY <1>6, <2>2 DEF QueryFinds
    <3>2. \A k \in Walkable : k = 1 \/ k > 1
      BY <1>1, WalkNumbers
    <3> QED
      BY <2>1, <3>1, <3>2 DEF Governs
  <2>3. CASE Exhausted
    <3>1. dropped >= labels \/ queries >= 8
      BY <2>3 DEF Exhausted, MaxQueries
    <3>2. queries = IF labels >= 8 /\ dropped > 0 THEN dropped - labels + 8 ELSE dropped
      BY DEF WalkInv
    <3>3. dropped = labels
      BY <1>1, <3>1, <3>2, WalkNumbers
    <3>4. \A k \in Walkable : k > Current
      BY <1>1, <3>3, WalkNumbers
    <3> QED
      BY <2>1, <3>4 DEF Governs
  <2> QED
    BY <1>6, <2>2, <2>3 DEF QueryFails
<1>7. /\ \A k \in Walkable : k > Current => published[k] = Absent
      /\ dropped < labels => Current \in Walkable
      /\ queries = IF labels >= 8 /\ dropped > 0 THEN dropped - labels + 8 ELSE dropped
  BY DEF WalkInv
<1> QED
  BY <1>2, <1>3, <1>4, <1>5, <1>6, <1>7 DEF WalkInv

\* The walk's invariant, for domains of any length.
THEOREM WalkInvariance == Spec => []WalkInv
<1>1. Init => WalkInv
  BY WalkInvInit
<1>2. WalkInv /\ [Next]_vars => WalkInv'
  <2> SUFFICES ASSUME WalkInv, [Next]_vars PROVE WalkInv'
    OBVIOUS
  <2>1. WalkDNS \/ UNCHANGED dmarcVars
    BY AnalysisStep
  <2>2. CASE UNCHANGED dmarcVars
    BY <2>2 DEF dmarcVars, WalkInv, DmarcTypeOK, Walkable, Current, Governs
  <2> QED
    BY <2>1, <2>2, WalkInvMiss, WalkInvEnd DEF WalkDNS
<1> QED
  BY <1>1, <1>2, PTL DEF Spec

\* The record found is the nearest one, for domains of any length.
THEOREM Nearest == Spec => []NearestRecord
<1>1. WalkInv => NearestRecord
  BY DEF WalkInv, NearestRecord
<1> QED
  BY <1>1, WalkInvariance, PTL

\* Eight queries are enough: a walk that finds nothing has missed nothing.
THEOREM Complete == Spec => []NothingMissed
<1>1. WalkInv => NothingMissed
  BY DEF WalkInv, NothingMissed
<1> QED
  BY <1>1, WalkInvariance, PTL
-----------------------------------------------------------------------------
(* The SPF traversal                                                       *)

\* What a record in the report asks to be looked up.
NamedBy(z, r) == IF Followed(r) THEN Range(Targets(z[r.domain])) ELSE {}
Reported == {records[k].domain : k \in DOMAIN records}
Waiting  == {pending[i].domain : i \in DOMAIN pending}

\* Every domain that was named is in the report or still waits for its turn, and
\* who waits was named, the domain in question apart.
SpfInv ==
  /\ SpfTypeOK
  /\ AskedOnce
  /\ NamedByEarlier
  /\ \A k \in DOMAIN records : NamedBy(zone, records[k]) \subseteq Reported \cup Waiting
  /\ IF records = << >> THEN Len(pending) <= 1
     ELSE \A d \in Waiting : \E k \in DOMAIN records : d \in NamedBy(zone, records[k])

LEMMA TargetsType ==
  ASSUME NEW a \in Answer
  PROVE  Targets(a) \in Seq(Domains)
BY DEF Targets, Answer

LEMMA RecordType ==
  ASSUME NEW d \in Domains, NEW a \in Answer, NEW depth \in Nat
  PROVE  /\ \A why \in Error : Missing(d, why) \in Record
         /\ Several(d, a) \in Record
         /\ Single(d, a, depth) \in Record
<1>1. a.all \in Qualifier \cup {None}
  BY DEF Answer
<1>2. ValidateSPF(a, depth) \in {"none", "invalid"}
  BY DEF ValidateSPF
<1>3. (a.redirect # None) \in BOOLEAN
  OBVIOUS
<1>4. \A why \in Error : Missing(d, why) \in Record
  BY DEF Missing, Record, Error
<1>5. Several(d, a) \in Record
  BY <1>3 DEF Several, Record, Error
<1>6. Single(d, a, depth) \in Record
  BY <1>1, <1>2, <1>3 DEF Single, Record, Error
<1> QED
  BY <1>4, <1>5, <1>6

\* The domain whose turn it is, and the rest of the stack.
LEMMA Turn ==
  ASSUME SpfTypeOK, pending # << >>
  PROVE  /\ Head(pending) \in Call
         /\ Head(pending).domain \in Domains
         /\ Head(pending).depth \in Nat
         /\ Tail(pending) \in Seq(Call)
         /\ Head(pending).domain \in Waiting
         /\ Waiting = {Head(pending).domain}
                        \cup {Tail(pending)[i].domain : i \in DOMAIN Tail(pending)}
<1>1. pending \in Seq(Call)
  BY DEF SpfTypeOK
<1>2. Head(pending) = pending[1] /\ Head(pending) \in Call /\ Tail(pending) \in Seq(Call)
  BY <1>1
<1>3. 1 \in DOMAIN pending
  BY <1>1
<1>4. Waiting = {Head(pending).domain}
                  \cup {Tail(pending)[i].domain : i \in DOMAIN Tail(pending)}
  <2>1. ASSUME NEW i \in DOMAIN pending, i # 1
        PROVE  i - 1 \in DOMAIN Tail(pending) /\ Tail(pending)[i - 1] = pending[i]
    BY <1>1, <2>1
  <2>2. ASSUME NEW i \in DOMAIN Tail(pending)
        PROVE  i + 1 \in DOMAIN pending /\ Tail(pending)[i] = pending[i + 1]
    BY <1>1, <2>2
  <2> DEFINE Rest == {Tail(pending)[i].domain : i \in DOMAIN Tail(pending)}
  <2>3. ASSUME NEW d \in Waiting PROVE d \in {Head(pending).domain} \cup Rest
    <3>1. PICK i \in DOMAIN pending : d = pending[i].domain
      BY DEF Waiting
    <3> QED
      BY <1>2, <2>1, <3>1
  <2>4. Head(pending).domain \in Waiting
    BY <1>2, <1>3 DEF Waiting
  <2>5. Rest \subseteq Waiting
    BY <2>2 DEF Waiting
  <2> QED
    BY <2>3, <2>4, <2>5
<1> QED
  BY <1>2, <1>3, <1>4 DEF Waiting, Call

\* One more record in the report, for the domain whose turn it is; who waits
\* afterwards is the rest of the stack and whom the record names.
LEMMA Report ==
  ASSUME SpfInv, pending # << >>,
         NEW r \in Record, r.domain = Head(pending).domain,
         records' = Append(records, r), zone' = zone, pending' \in Seq(Call),
         Waiting' = {Tail(pending)[i].domain : i \in DOMAIN Tail(pending)} \cup NamedBy(zone, r),
         IF Answered(r) THEN r.domain \notin asked /\ asked' = asked \cup {r.domain}
                        ELSE asked' = asked
  PROVE  SpfInv'
<1> DEFINE n == Len(records)
           Rest == {Tail(pending)[i].domain : i \in DOMAIN Tail(pending)}
<1>1. SpfTypeOK
  BY DEF SpfInv
<1>2. records \in Seq(Record) /\ n \in Nat /\ DOMAIN records = 1..n
  BY <1>1 DEF SpfTypeOK
<1>3. /\ records' \in Seq(Record) /\ DOMAIN records' = 1..(n + 1)
      /\ \A k \in 1..n : records'[k] = records[k]
      /\ records'[n + 1] = r
      /\ records' # << >>
  BY <1>2
<1>4. r.domain \in Domains
  BY DEF Record
<1>5. SpfTypeOK'
  BY <1>1, <1>3, <1>4 DEF SpfTypeOK
<1>6. /\ \A k \in 1..n : NamedBy(zone', records'[k]) = NamedBy(zone, records[k])
      /\ NamedBy(zone', records'[n + 1]) = NamedBy(zone, r)
  BY <1>3
<1>7. AskedOnce'
  <2>1. AskedOnce
    BY DEF SpfInv
  <2>2. ASSUME NEW j \in 1..n, Answered(records[j]) PROVE records[j].domain \in asked
    BY <1>2, <2>1, <2>2 DEF AskedOnce
  <2>3. ASSUME NEW j \in DOMAIN records', NEW k \in DOMAIN records', Answered(records'[j]),
               Answered(records'[k]), records'[j].domain = records'[k].domain
        PROVE  j = k
    <3>1. CASE j \in 1..n /\ k \in 1..n
      BY <1>2, <1>3, <2>1, <2>3, <3>1 DEF AskedOnce
    <3>2. CASE j = n + 1 /\ k \in 1..n
      BY <1>3, <2>2, <2>3, <3>2
    <3>3. CASE k = n + 1 /\ j \in 1..n
      BY <1>3, <2>2, <2>3, <3>3
    <3> QED
      BY <1>2, <1>3, <2>3, <3>1, <3>2, <3>3
  <2>4. asked' = {records'[k].domain : k \in {j \in DOMAIN records' : Answered(records'[j])}}
    <3> DEFINE Asked2 == {records'[k].domain : k \in {j \in DOMAIN records' : Answered(records'[j])}}
    <3>1. ASSUME NEW d \in asked' PROVE d \in Asked2
      <4>1. CASE d \in asked
        <5>1. PICK k \in 1..n : Answered(records[k]) /\ d = records[k].domain
          BY <1>2, <2>1, <4>1 DEF AskedOnce
        <5> QED
          BY <1>2, <1>3, <5>1
      <4>2. CASE Answered(r) /\ d = r.domain
        BY <1>2, <1>3, <4>2
      <4> QED
        BY <3>1, <4>1, <4>2
    <3>2. ASSUME NEW k \in DOMAIN records', Answered(records'[k]) PROVE records'[k].domain \in asked'
      <4>1. CASE k \in 1..n
        BY <1>3, <2>2, <3>2, <4>1
      <4>2. CASE k = n + 1
        BY <1>3, <3>2, <4>2
      <4> QED
        BY <1>2, <1>3, <4>1, <4>2
    <3> QED
      BY <3>1, <3>2
  <2> QED
    BY <2>3, <2>4 DEF AskedOnce
<1>8. r.domain \in Waiting /\ Waiting = {r.domain} \cup Rest
  BY <1>1, Turn
<1>9. records # << >> => \A d \in Waiting : \E k \in 1..n : d \in NamedBy(zone, records[k])
  BY <1>2 DEF SpfInv
<1>10. NamedByEarlier'
  <2>1. SUFFICES ASSUME NEW k \in 1..(n + 1), k > 1
                 PROVE  \E j \in 1..(k - 1) : /\ Followed(records'[j])
                                             /\ records'[k].domain \in Range(Targets(zone[records'[j].domain]))
    BY <1>3 DEF NamedByEarlier, Followed
  <2>2. CASE k \in 1..n
    <3>1. NamedByEarlier
      BY DEF SpfInv
    <3>2. PICK j \in 1..(k - 1) : /\ Followed(records[j])
                                  /\ records[k].domain \in Range(Targets(zone[records[j].domain]))
      BY <1>2, <2>1, <2>2, <3>1 DEF NamedByEarlier
    <3>3. j \in 1..n
      BY <1>2, <2>2, <3>2
    <3> QED
      BY <1>3, <2>2, <3>2, <3>3
  <2>3. CASE k = n + 1
    <3>1. records # << >>
      BY <1>2, <2>1, <2>3
    <3>2. PICK j \in 1..n : r.domain \in NamedBy(zone, records[j])
      BY <1>8, <1>9, <3>1
    <3>3. Followed(records[j]) /\ r.domain \in Range(Targets(zone[records[j].domain]))
      BY <3>2 DEF NamedBy
    <3> QED
      BY <1>2, <1>3, <2>3, <3>3
  <2>4. k \in 1..n \/ k = n + 1
    BY <1>2
  <2> QED
    BY <2>2, <2>3, <2>4
<1>11. Reported' = Reported \cup {r.domain}
  <2>1. ASSUME NEW d \in Reported' PROVE d \in Reported \cup {r.domain}
    <3>1. PICK k \in 1..(n + 1) : d = records'[k].domain
      BY <1>3 DEF Reported
    <3>2. k \in 1..n \/ k = n + 1
      BY <1>2
    <3> QED
      BY <1>2, <1>3, <3>1, <3>2 DEF Reported
  <2>2. ASSUME NEW d \in Reported PROVE d \in Reported'
    <3>1. PICK k \in 1..n : d = records[k].domain
      BY <1>2 DEF Reported
    <3>2. k \in 1..(n + 1)
      BY <1>2
    <3> QED
      BY <1>3, <3>1, <3>2 DEF Reported
  <2>3. r.domain \in Reported'
    BY <1>2, <1>3 DEF Reported
  <2> QED
    BY <2>1, <2>2, <2>3
<1>12. \A k \in 1..(n + 1) : NamedBy(zone', records'[k]) \subseteq (Reported \cup Waiting)'
  <2>1. \A k \in 1..n : NamedBy(zone, records[k]) \subseteq Reported \cup Waiting
    BY <1>2 DEF SpfInv
  <2>2. Reported \cup Waiting \subseteq (Reported \cup Waiting)'
    BY <1>8, <1>11
  <2>3. NamedBy(zone, r) \subseteq Waiting'
    OBVIOUS
  <2>4. ASSUME NEW k \in 1..(n + 1) PROVE k \in 1..n \/ k = n + 1
    BY <1>2
  <2> QED
    BY <1>6, <2>1, <2>2, <2>3, <2>4
<1>13. \A d \in Waiting' : \E k \in 1..(n + 1) : d \in NamedBy(zone', records'[k])
  <2> SUFFICES ASSUME NEW d \in Waiting' PROVE \E k \in 1..(n + 1) : d \in NamedBy(zone', records'[k])
    OBVIOUS
  <2>1. CASE d \in NamedBy(zone, r)
    BY <1>2, <1>6, <2>1
  <2>2. CASE d \in Rest
    <3>1. records # << >>
      <4>1. Len(pending) > 1
        <5>1. pending \in Seq(Call) /\ Tail(pending) # << >>
          BY <1>1, <2>2 DEF SpfTypeOK
        <5> QED
          BY <5>1
      <4> QED
        BY <1>1, <4>1 DEF SpfInv, SpfTypeOK
    <3>2. PICK k \in 1..n : d \in NamedBy(zone, records[k])
      BY <1>8, <1>9, <2>2, <3>1
    <3> QED
      BY <1>2, <1>6, <3>2
  <2> QED
    BY <2>1, <2>2
<1> QED
  BY <1>3, <1>5, <1>7, <1>10, <1>12, <1>13 DEF SpfInv

\* What the stack holds after each kind of step.
LEMMA StackAfter ==
  ASSUME SpfTypeOK, pending # << >>, NEW t \in Seq(Domains), NEW depth \in Nat
  PROVE  LET calls == [k \in DOMAIN t |-> [domain |-> t[k], depth |-> depth]]
             rest  == Tail(pending)
         IN  /\ calls \o rest \in Seq(Call)
             /\ {(calls \o rest)[i].domain : i \in DOMAIN (calls \o rest)}
                  = {rest[i].domain : i \in DOMAIN rest} \cup Range(t)
<1> DEFINE calls == [k \in DOMAIN t |-> [domain |-> t[k], depth |-> depth]]
           rest  == Tail(pending)
           all   == calls \o rest
<1>1. rest \in Seq(Call)
  BY Turn
<1>2. calls \in Seq(Call) /\ Len(calls) = Len(t) /\ DOMAIN calls = DOMAIN t
  <2>1. \A k \in DOMAIN t : [domain |-> t[k], depth |-> depth] \in Call
    BY DEF Call
  <2> QED
    BY <2>1
<1>3. all \in Seq(Call) /\ Len(all) = Len(calls) + Len(rest)
  BY <1>1, <1>2
<1>4. ASSUME NEW i \in DOMAIN all
      PROVE  all[i].domain \in {rest[k].domain : k \in DOMAIN rest} \cup Range(t)
  <2>1. CASE i <= Len(calls)
    <3>1. i \in DOMAIN t /\ all[i] = calls[i]
      BY <1>1, <1>2, <1>3, <2>1
    <3>2. all[i].domain = t[i]
      BY <3>1
    <3> QED
      BY <3>1, <3>2 DEF Range
  <2>2. CASE i > Len(calls)
    <3>1. i - Len(calls) \in DOMAIN rest /\ all[i] = rest[i - Len(calls)]
      BY <1>1, <1>2, <1>3, <2>2
    <3> QED
      BY <3>1
  <2>3. i <= Len(calls) \/ i > Len(calls)
    <3>1. i \in Nat /\ Len(calls) \in Nat
      BY <1>2, <1>3
    <3> QED
      BY <3>1
  <2> QED
    BY <2>1, <2>2, <2>3
<1>5. ASSUME NEW k \in DOMAIN rest
      PROVE  \E i \in DOMAIN all : all[i].domain = rest[k].domain
  <2>1. k + Len(calls) \in DOMAIN all /\ all[k + Len(calls)] = rest[k]
    BY <1>1, <1>2, <1>3
  <2> QED
    BY <2>1
<1>6. ASSUME NEW k \in DOMAIN t
      PROVE  \E i \in DOMAIN all : all[i].domain = t[k]
  <2>1. k \in DOMAIN all /\ all[k] = calls[k]
    BY <1>1, <1>2, <1>3
  <2> QED
    BY <2>1
<1>7. {all[i].domain : i \in DOMAIN all} = {rest[k].domain : k \in DOMAIN rest} \cup Range(t)
  <2>1. ASSUME NEW d \in Range(t) PROVE \E i \in DOMAIN all : all[i].domain = d
    BY <1>6 DEF Range
  <2>2. \A i \in DOMAIN all : all[i].domain \in {rest[k].domain : k \in DOMAIN rest} \cup Range(t)
    BY <1>4
  <2>3. \A k \in DOMAIN rest : \E i \in DOMAIN all : all[i].domain = rest[k].domain
    BY <1>5
  <2> HIDE DEF all, rest
  <2> QED
    BY <2>1, <2>2, <2>3
<1> QED
  BY <1>3, <1>7

LEMMA SpfInvStep ==
  ASSUME SpfInv, ResolveSPFRecords
  PROVE  SpfInv'
<1> DEFINE c == Head(pending)
           a == zone[c.domain]
           Rest == {Tail(pending)[i].domain : i \in DOMAIN Tail(pending)}
<1>1. SpfTypeOK /\ pending # << >>
  BY DEF SpfInv, ResolveSPFRecords
<1>2. c \in Call /\ c.domain \in Domains /\ c.depth \in Nat /\ Tail(pending) \in Seq(Call)
  BY <1>1, Turn
<1>3. a \in Answer
  BY <1>1, <1>2 DEF SpfTypeOK
<1>4. ASSUME NEW r \in Record, r.domain = c.domain, ~Followed(r), Return(r),
             IF Answered(r) THEN Asks(c) ELSE asked' = asked
      PROVE  SpfInv'
  <2>1. records' = Append(records, r) /\ zone' = zone /\ pending' = Tail(pending)
    BY <1>4 DEF Return
  <2>2. Waiting' = Rest \cup NamedBy(zone, r)
    BY <1>4, <2>1 DEF Waiting, NamedBy
  <2>3. IF Answered(r) THEN r.domain \notin asked /\ asked' = asked \cup {r.domain}
                       ELSE asked' = asked
    BY <1>4 DEF Asks
  <2> QED
    BY <1>1, <1>2, <1>4, <2>1, <2>2, <2>3, Report
<1>5. CASE TooDeep(c)
  <2>1. Missing(c.domain, "too deep") \in Record
    BY <1>2, <1>3, RecordType DEF Error
  <2> QED
    BY <1>4, <1>5, <2>1 DEF TooDeep, Missing, Followed, Answered
<1>6. CASE LookupFails(c)
  <2>1. Missing(c.domain, "lookup") \in Record
    BY <1>2, <1>3, RecordType DEF Error
  <2> QED
    BY <1>4, <1>6, <2>1 DEF LookupFails, Missing, Followed, Answered
<1>7. CASE NoRecord(c)
  <2>1. Missing(c.domain, "absent") \in Record
    BY <1>2, <1>3, RecordType DEF Error
  <2> QED
    BY <1>4, <1>7, <2>1 DEF NoRecord, Missing, Followed, Answered
<1>8. CASE SeveralRecords(c)
  <2>1. Several(c.domain, a) \in Record
    BY <1>2, <1>3, RecordType
  <2> QED
    BY <1>4, <1>8, <2>1 DEF SeveralRecords, Several, Followed, Answered
<1>9. CASE OneRecord(c)
  <2> DEFINE r      == Single(c.domain, a, c.depth)
             t      == Targets(a)
             deeper == c.depth + 1
             after  == [k \in DOMAIN t |-> [domain |-> t[k], depth |-> deeper]] \o Tail(pending)
  <2>1. r \in Record
    BY <1>2, <1>3, RecordType
  <2>2. r.domain = c.domain /\ Followed(r) /\ Answered(r)
    BY DEF Single, ValidateSPF, Followed, Answered
  <2>3. NamedBy(zone, r) = Range(Targets(a))
    BY <2>2 DEF NamedBy
  <2>4. /\ records' = Append(records, r) /\ zone' = zone
        /\ c.domain \notin asked /\ asked' = asked \cup {c.domain}
        /\ pending' = after
    BY <1>9 DEF OneRecord, Asks, Calls
  <2>5. t \in Seq(Domains) /\ deeper \in Nat
    BY <1>2, <1>3, TargetsType
  <2>6. after \in Seq(Call) /\ {after[i].domain : i \in DOMAIN after} = Rest \cup Range(t)
    <3> HIDE DEF t, deeper
    <3> QED
      BY <1>1, <2>5, StackAfter
  <2>7. pending' \in Seq(Call) /\ {pending'[i].domain : i \in DOMAIN pending'} = Rest \cup Range(t)
    <3> HIDE DEF after
    <3> QED
      BY <2>4, <2>6
  <2>8. Waiting' = Rest \cup NamedBy(zone, r)
    BY <2>3, <2>7 DEF Waiting
  <2> HIDE DEF r
  <2> QED
    BY <1>1, <2>1, <2>2, <2>4, <2>7, <2>8, Report
<1>10. CASE AskedBefore(c)
  <2>1. c.domain \in asked /\ pending' = Tail(pending) /\ UNCHANGED <<zone, asked, records>>
    BY <1>10 DEF AskedBefore
  <2>2. c.domain \in Reported /\ records # << >>
    BY <2>1 DEF SpfInv, AskedOnce, Reported
  <2>3. Waiting \subseteq {c.domain} \cup Waiting' /\ Waiting' \subseteq Waiting
    BY <1>1, <2>1, Turn DEF Waiting
  <2>4. SpfTypeOK'
    BY <1>1, <1>2, <2>1 DEF SpfTypeOK
  <2>5. AskedOnce' /\ NamedByEarlier' /\ Reported' = Reported
    BY <2>1 DEF SpfInv, AskedOnce, NamedByEarlier, Reported
  <2> QED
    BY <2>1, <2>2, <2>3, <2>4, <2>5 DEF SpfInv
<1> QED
  BY <1>5, <1>6, <1>7, <1>8, <1>9, <1>10 DEF ResolveSPFRecords

LEMMA SpfInvInit ==
  ASSUME Init
  PROVE  SpfInv
<1>1. PICK s \in Scenarios : SpfInit(Main, {s.spf})
  BY DEF Init
<1>2. zone = s.spf /\ asked = {} /\ records = << >> /\ pending = <<[domain |-> Main, depth |-> 0]>>
  BY <1>1 DEF SpfInit
<1>3. zone \in [Domains -> Answer] /\ Main \in Domains
  BY <1>2, ScenarioAssumption
<1>4. [domain |-> Main, depth |-> 0] \in Call
  BY <1>3 DEF Call
<1>5. SpfTypeOK
  BY <1>2, <1>3, <1>4 DEF SpfTypeOK
<1> QED
  BY <1>2, <1>5 DEF SpfInv, AskedOnce, NamedByEarlier

\* The traversal's invariant, for any zone and depth limit.
THEOREM TraversalInvariance == Spec => []SpfInv
<1>1. Init => SpfInv
  BY SpfInvInit
<1>2. SpfInv /\ [Next]_vars => SpfInv'
  <2> SUFFICES ASSUME SpfInv, [Next]_vars PROVE SpfInv'
    OBVIOUS
  <2>1. CASE UNCHANGED spfVars
    BY <2>1 DEF spfVars, SpfInv, SpfTypeOK, AskedOnce, NamedByEarlier, Reported, Waiting
  <2> QED
    BY <2>1, AnalysisStep, SpfInvStep
<1> QED
  BY <1>1, <1>2, PTL DEF Spec

\* No domain is asked twice, whatever circle the records form.
THEOREM Once == Spec => []AskedOnce
<1>1. SpfInv => AskedOnce
  BY DEF SpfInv
<1> QED
  BY <1>1, TraversalInvariance, PTL

\* Every record but the first was named by an earlier one.
THEOREM Reasons == Spec => []NamedByEarlier
<1>1. SpfInv => NamedByEarlier
  BY DEF SpfInv
<1> QED
  BY <1>1, TraversalInvariance, PTL

\* A finished traversal reports every domain that a followed record names.
THEOREM Everyone == Spec => []NothingOverlooked
<1>1. SpfInv => NothingOverlooked
  <2> SUFFICES ASSUME SpfInv, pending = << >>, NEW k \in DOMAIN records, Followed(records[k]),
                      NEW d \in Range(Targets(zone[records[k].domain]))
               PROVE  \E j \in DOMAIN records : records[j].domain = d
    BY DEF NothingOverlooked, Resolved
  <2>1. d \in Reported \cup Waiting
    BY DEF SpfInv, NamedBy
  <2>2. Waiting = {}
    BY DEF Waiting
  <2> QED
    BY <2>1, <2>2 DEF Reported
<1> QED
  BY <1>1, TraversalInvariance, PTL
-----------------------------------------------------------------------------
(* The score                                                               *)

LEMMA SpfScore ==
  ASSUME NEW rs, NEW strict \in BOOLEAN
  PROVE  /\ CalculateSPFScore(rs, strict) \in 0..100
         /\ CalculateSPFScore(rs, strict) >= CalculateSPFScore(rs, FALSE)
         /\ CalculateSPFScore(rs, strict) > 75 =>
              Valid(rs[MainIndex(rs)]) /\ rs[MainIndex(rs)].all \in {"-", "~"}
<1> DEFINE main == rs[MainIndex(rs)]
           is   == AllScore(main.all, strict)
           was  == AllScore(main.all, FALSE)
<1>1. /\ is \in Int /\ 0 - 25 <= is /\ is <= 25
      /\ was \in Int /\ 0 - 25 <= was /\ was <= is
      /\ is > 0 => main.all \in {"-", "~"}
  BY DEF AllScore
<1> DEFINE now  == CalculateSPFScore(rs, strict)
           then == CalculateSPFScore(rs, FALSE)
<1>2. now \in 0..100 /\ now >= then /\ (now > 75 => Valid(main) /\ is > 0)
  <2>1. CASE rs # << >> /\ Valid(main)
    <3>1. now = 75 + is /\ then = 75 + was
      BY <2>1 DEF CalculateSPFScore
    <3> HIDE DEF is, was, now, then
    <3> QED
      BY <1>1, <2>1, <3>1
  <2>2. CASE rs = << >> \/ ~Valid(main)
    <3>1. now = then /\ (now = 0 \/ now = 25)
      BY <2>2 DEF CalculateSPFScore
    <3> HIDE DEF now, then
    <3> QED
      BY <3>1
  <2> QED
    BY <2>1, <2>2
<1> HIDE DEF is
<1> QED
  BY <1>1, <1>2

\* A percentage of a number.
LEMMA Scaled ==
  ASSUME NEW f \in Nat, NEW p \in 0..100
  PROVE  (f * p) \div 100 \in 0..f
<1>1. f * p \in Nat /\ f * p <= f * 100
  OBVIOUS
<1> QED
  BY <1>1

LEMMA DmarcScore ==
  ASSUME NEW tags \in Tags
  PROVE  LET r == ParseDMARC(tags) IN
           /\ CalculateDMARCScore(r) \in 0..115
           /\ CalculateDMARCScore(r) > 90 => r.valid /\ r.policy = "reject" /\ ~r.test
<1> DEFINE r         == ParseDMARC(tags)
           effective == IF r.test THEN Downgraded(r.policy) ELSE r.policy
           sub       == IF r.sp = Absent THEN effective ELSE r.sp
           aligned   == IF "aspf" \in r.strict THEN 5 ELSE 0
           signed    == IF "adkim" \in r.strict THEN 5 ELSE 0
           below     == InheritScore(r.sp, effective)
           absent    == InheritScore(r.np, sub)
           full      == 50 + StrengthScore(effective) + aligned + signed + below + absent
<1>1. r.found /\ r.policy \in Policy \cup {"unknown"} /\ r.valid \in BOOLEAN /\ r.test \in BOOLEAN
  BY DEF ParseDMARC, ParsedPolicy, ValidateDMARC, SaysP, Tags
<1>2. r.pct = Absent \/ r.pct \in 0..100
  BY DEF ParseDMARC, Tags
<1>3. /\ effective \in Policy \cup {"unknown"}
      /\ effective = "reject" => r.policy = "reject" /\ ~r.test
  BY <1>1 DEF Downgraded, Policy
<1>4. r.sp \in Policy \cup {Absent} /\ r.np \in Policy \cup {Absent}
  BY DEF ParseDMARC
<1>5. CalculateDMARCScore(r) = IF ~r.valid THEN 20
                               ELSE IF r.pct = Absent THEN full ELSE (full * r.pct) \div 100
  BY <1>1 DEF CalculateDMARCScore
<1> HIDE DEF r
<1>6. aligned \in 0..5 /\ signed \in 0..5
  OBVIOUS
<1>7. /\ below \in Int /\ 0 - 15 <= below /\ below <= 15
      /\ absent \in Int /\ 0 - 15 <= absent /\ absent <= 15
  BY DEF InheritScore
<1>8. full \in 0..115 /\ (effective # "reject" => full <= 90)
  <2>1. CASE effective = "reject"
    <3>1. StrengthScore(effective) = 25
      BY <2>1 DEF StrengthScore
    <3> HIDE DEF effective, aligned, signed, below, absent
    <3> QED
      BY <1>6, <1>7, <2>1, <3>1
  <2>2. CASE effective = "quarantine"
    <3>1. StrengthScore(effective) = 0
      BY <2>2 DEF StrengthScore
    <3>2. effective # "reject"
      BY <2>2
    <3> HIDE DEF effective, aligned, signed, below, absent
    <3> QED
      BY <1>6, <1>7, <3>1, <3>2
  <2>3. CASE effective \in {"none", "unknown"}
    <3>1. StrengthScore(effective) \in (0 - 25)..0 /\ effective # "reject"
      BY <2>3 DEF StrengthScore
    <3>2. below = 15
      BY <1>4, <2>3 DEF InheritScore, Strength, Policy
    <3> HIDE DEF effective, aligned, signed, below, absent
    <3> QED
      BY <1>6, <1>7, <3>1, <3>2
  <2> HIDE DEF full
  <2> QED
    BY <1>3, <2>1, <2>2, <2>3 DEF Policy
<1> HIDE DEF full
<1>9. r.pct # Absent => (full * r.pct) \div 100 \in 0..full
  BY <1>2, <1>8, Scaled
<1>10. /\ CalculateDMARCScore(r) \in 0..115
       /\ CalculateDMARCScore(r) > 90 => r.valid /\ effective = "reject"
  <2> HIDE DEF effective
  <2>1. CASE ~r.valid
    BY <1>5, <2>1
  <2>2. CASE r.valid /\ r.pct = Absent
    BY <1>5, <1>8, <2>2
  <2>3. CASE r.valid /\ r.pct # Absent
    <3>1. CalculateDMARCScore(r) \in 0..full
      BY <1>5, <1>9, <2>3
    <3> QED
      BY <1>8, <2>3, <3>1
  <2> QED
    BY <2>1, <2>2, <2>3
<1> QED
  BY <1>3, <1>10 DEF r

\* The record that the walk found is scored, or that there is none.
LEMMA FoundScore ==
  ASSUME DmarcTypeOK, walk = "found" => dropped < labels /\ Governs(Current)
  PROVE  LET r == CheckDMARCRecord IN
           /\ CalculateDMARCScore(r) \in 0..115
           /\ CalculateDMARCScore(r) > 90 => r.valid /\ r.policy = "reject" /\ ~r.test
           /\ r.valid \in BOOLEAN
<1>1. CASE walk = "found"
  <2>1. Current \in 1..labels
    BY <1>1, WalkNumbers
  <2>2. published[Current] \in Tags
    BY <1>1, <2>1 DEF DmarcTypeOK, Governs
  <2>3. CheckDMARCRecord = ParseDMARC(published[Current])
    BY <1>1 DEF CheckDMARCRecord
  <2>4. ParseDMARC(published[Current]).valid \in BOOLEAN
    BY <2>2 DEF ParseDMARC, ValidateDMARC, SaysP, Tags
  <2> QED
    BY <2>2, <2>3, <2>4, DmarcScore
<1>2. CASE walk # "found"
  <2>1. CheckDMARCRecord = NoPolicy
    BY <1>2 DEF CheckDMARCRecord
  <2>2. CalculateDMARCScore(NoPolicy) = 0 /\ NoPolicy.valid = FALSE
    BY DEF CalculateDMARCScore, NoPolicy
  <2>3. CalculateDMARCScore(CheckDMARCRecord) = 0 /\ CheckDMARCRecord.valid = FALSE
    BY <2>1, <2>2
  <2> DEFINE d == CalculateDMARCScore(CheckDMARCRecord)
  <2>4. d \in 0..115 /\ ~(d > 90)
    <3>1. d = 0
      BY <2>3
    <3> HIDE DEF d
    <3> QED
      BY <3>1
  <2> QED
    BY <2>3, <2>4
<1> QED
  BY <1>1, <1>2

\* The shares of the weighted sum, apart from the operators that compute them.
LEMMA Shares ==
  ASSUME NEW m \in {0, 30}, NEW s \in 0..100, NEW d \in 0..115, NEW penalty \in {0 - 10, 0}
  PROVE  LET sum == m + (30 * s) \div 100 + (40 * d) \div 100 + penalty IN
           /\ sum \in Int
           /\ sum >= 100 => m = 30 /\ s > 75 /\ d > 90
<1>1. (30 * s) \div 100 \in 0..30 /\ (s <= 75 => (30 * s) \div 100 <= 22)
  OBVIOUS
<1>2. (40 * d) \div 100 \in 0..46 /\ (d <= 90 => (40 * d) \div 100 <= 36)
  OBVIOUS
<1> QED
  BY <1>1, <1>2

\* What the analysis itself keeps: no score before the last stage, and then the
\* clipped sum of the shares.
ScoreInv ==
  /\ stage \in {"mx", "spf", "returnOK", "dmarc", "bimi", "score", "done"}
  /\ request \in Request /\ mx \in BOOLEAN
  /\ stage \in {"mx", "spf", "returnOK", "score"} => request = "domain"
  /\ returnOK \in {None, "pass", "warn", "fail"}
  /\ grade \in Grade \cup {None}
  /\ stage # "done" \/ request = "bimi" => score = 0
  /\ stage = "done" /\ request = "domain" => score = Clipped(Weighted(mx, records, CheckDMARCRecord, returnOK))

LEMMA ScoreInvStep ==
  ASSUME ScoreInv, [Next]_vars
  PROVE  ScoreInv'
<1>1. CASE CheckMXRecords
  BY <1>1 DEF CheckMXRecords, ScoreInv
<1>2. CASE CheckSPFRecords
  BY <1>2 DEF CheckSPFRecords, ScoreInv
<1>3. CASE CheckReturnOK
  BY <1>3 DEF CheckReturnOK, ScoreInv
<1>4. CASE CheckDMARC
  BY <1>4 DEF CheckDMARC, ScoreInv
<1>5. CASE CheckBIMIRecord
  BY <1>5 DEF CheckBIMIRecord, ScoreInv, Request
<1>6. CASE CalculateDomainOnlyScore
  <2> DEFINE s == Weighted(mx, records, CheckDMARCRecord, returnOK)
  <2>1. s' = s
    BY <1>6 DEF CalculateDomainOnlyScore, CheckDMARCRecord, Current, spfVars, dmarcVars
  <2>2. score' = Clipped(s) /\ grade' \in Grade /\ stage' = "done"
    <3>1. Kind(Clipped(s)) \in Grade
      BY DEF Kind, Grade
    <3> QED
      BY <1>6, <3>1 DEF CalculateDomainOnlyScore, Grade
  <2>3. UNCHANGED <<request, mx, returnOK>> /\ request = "domain"
    BY <1>6 DEF CalculateDomainOnlyScore, ScoreInv
  <2> HIDE DEF s
  <2> QED
    BY <2>1, <2>2, <2>3 DEF ScoreInv, s
<1>7. CASE UNCHANGED vars
  BY <1>7 DEF vars, own, spfVars, dmarcVars, ScoreInv, CheckDMARCRecord, Current
<1> QED
  BY <1>1, <1>2, <1>3, <1>4, <1>5, <1>6, <1>7 DEF Next

\* The score is what the stage says it is.
THEOREM ScoreInvariance == Spec => []ScoreInv
<1>1. Init => ScoreInv
  BY ScenarioAssumption DEF Init, ScoreInv, Request
<1> QED
  BY <1>1, ScoreInvStep, PTL DEF Spec

\* The shares of any state of the walk and of any records.
LEMMA Weighing ==
  ASSUME WalkInv, ScoreInv
  PROVE  LET r == CheckDMARCRecord
             s == CalculateSPFScore(records, DmarcStrict(r))
             d == CalculateDMARCScore(r)
             w == Weighted(mx, records, r, returnOK)
         IN  /\ w \in Int
             /\ w >= 100 => mx /\ s > 75 /\ d > 90
             /\ w >= Weighted(mx, records, NoPolicy, returnOK)
<1> DEFINE r       == CheckDMARCRecord
           s       == CalculateSPFScore(records, DmarcStrict(r))
           bare    == CalculateSPFScore(records, FALSE)
           d       == CalculateDMARCScore(r)
           m       == IF mx THEN 30 ELSE 0
           penalty == CalculateReturnOKPenalty(returnOK)
<1>1. d \in 0..115 /\ r.valid \in BOOLEAN
  BY FoundScore DEF WalkInv
<1>2. DmarcStrict(r) \in BOOLEAN
  BY DEF DmarcStrict
<1>3. s \in 0..100 /\ bare \in 0..100 /\ s >= bare
  BY <1>2, SpfScore
<1>4. m \in {0, 30} /\ (m = 30 => mx) /\ penalty \in {0 - 10, 0}
  BY DEF ScoreInv, CalculateReturnOKPenalty
<1>5. Weighted(mx, records, r, returnOK) = m + (30 * s) \div 100 + (40 * d) \div 100 + penalty
  BY DEF Weighted
<1>6. Weighted(mx, records, NoPolicy, returnOK) = m + (30 * bare) \div 100 + 0 + penalty
  <2>1. DmarcStrict(NoPolicy) = FALSE /\ (40 * CalculateDMARCScore(NoPolicy)) \div 100 = 0
    BY DEF DmarcStrict, CalculateDMARCScore, NoPolicy
  <2> QED
    BY <2>1 DEF Weighted
<1> HIDE DEF r, s, bare, d, m, penalty
<1>7. (30 * s) \div 100 >= (30 * bare) \div 100 /\ (40 * d) \div 100 >= 0
  BY <1>1, <1>3
<1>8. /\ (30 * s) \div 100 \in Int /\ (30 * bare) \div 100 \in Int
      /\ (40 * d) \div 100 \in Int
  BY <1>1, <1>3
<1>9. m + (30 * s) \div 100 + (40 * d) \div 100 + penalty >= m + (30 * bare) \div 100 + 0 + penalty
  BY <1>4, <1>7, <1>8
<1>10. LET sum == m + (30 * s) \div 100 + (40 * d) \div 100 + penalty IN
         sum \in Int /\ (sum >= 100 => mx /\ s > 75 /\ d > 90)
  BY <1>1, <1>3, <1>4, Shares
<1> QED
  BY <1>5, <1>6, <1>9, <1>10 DEF r, s, d

-----------------------------------------------------------------------------
(* BIMI discovery                                                          *)

\* The organizational domain is asked only by a domain without BIMI records of its
\* own; a record is refined, and its files are fetched, only once it is usable.
DiscoveryInv ==
  /\ BimiTypeOK
  /\ lookup \in {"domain", "organization"} => bimi = NoIndicator
  /\ lookup = "organization" => RecordsAt("domain", "requested") = << >> /\ bimiDNS.org
  /\ lookup \in {"derived", "assets"} => RecordValid(bimi)
  /\ lookup = "derived" => bimi.selector = "requested" /\ Refines(bimi.tags)
  /\ lookup \in {"domain", "organization", "derived"} => bimi.checks = NoChecks
  /\ RecordIsGoverning

\* The values records are built from.
LEMMA Constructed ==
  /\ NoIndicator \in BimiRecord /\ ~RecordValid(NoIndicator) /\ NoIndicator.checks = NoChecks
  /\ \A t \in BimiTags, p \in Place, s \in Selector :
       LET r == Parsed(t, p, s) IN
       /\ r \in BimiRecord /\ (RecordValid(r) <=> t.ok)
       /\ r.answer = "record" /\ r.place = p /\ r.selector = s /\ r.tags = t /\ r.valid = t.ok
       /\ r.checks = NoChecks
  /\ \A a \in {"none", "failed", "several", "misplaced"}, p \in Place :
       LET r == NoneUsable(a, p) IN
       /\ r \in BimiRecord /\ ~RecordValid(r) /\ r.answer = a /\ r.valid = FALSE
       /\ r.checks = NoChecks
<1>1. NoTags \in BimiTags /\ NoChecks \in [CheckName -> Status]
  BY DEF NoTags, BimiTags, NoChecks, Status
<1>4. ASSUME NEW t \in BimiTags, NEW p \in Place, NEW s \in Selector
      PROVE  LET r == Parsed(t, p, s) IN
             /\ r \in BimiRecord /\ (RecordValid(r) <=> t.ok)
             /\ r.answer = "record" /\ r.place = p /\ r.selector = s /\ r.tags = t /\ r.valid = t.ok
             /\ r.checks = NoChecks
  <2>1. t.ok \in BOOLEAN
    BY DEF BimiTags
  <2>2. Parsed(t, p, s) = [answer |-> "record", place |-> p, selector |-> s, tags |-> t,
                           valid |-> t.ok, checks |-> NoChecks]
    BY DEF Parsed
  <2>3. Parsed(t, p, s) \in BimiRecord
    BY <1>1, <2>1, <2>2 DEF BimiRecord
  <2>4. RecordValid(Parsed(t, p, s)) <=> t.ok
    BY <2>1, <2>2 DEF RecordValid
  <2> QED
    BY <2>2, <2>3, <2>4
<1>5. ASSUME NEW a \in {"none", "failed", "several", "misplaced"}, NEW p \in Place
      PROVE  LET r == NoneUsable(a, p) IN
             /\ r \in BimiRecord /\ ~RecordValid(r) /\ r.answer = a /\ r.valid = FALSE
             /\ r.checks = NoChecks
  BY <1>1 DEF NoneUsable, BimiRecord, RecordValid, Selector
<1>6. NoIndicator = NoneUsable("none", "domain") /\ "domain" \in Place
  BY DEF NoIndicator, Place
<1> QED
  BY <1>4, <1>5, <1>6

\* What is published is made of sequences of records.
LEMMA AtTyped ==
  ASSUME BimiTypeOK
  PROVE  \A p \in Place, s \in Selector :
           /\ RecordsAt(p, s) \in Seq(BimiTags) /\ Len(RecordsAt(p, s)) \in Nat
           /\ Len(RecordsAt(p, s)) = 1 => RecordsAt(p, s)[1] \in BimiTags
           /\ Usable(p, s) => RecordsAt(p, s) # << >>
<1> SUFFICES ASSUME NEW p \in Place, NEW s \in Selector
             PROVE  /\ RecordsAt(p, s) \in Seq(BimiTags) /\ Len(RecordsAt(p, s)) \in Nat
                    /\ Len(RecordsAt(p, s)) = 1 => RecordsAt(p, s)[1] \in BimiTags
                    /\ Usable(p, s) => RecordsAt(p, s) # << >>
  OBVIOUS
<1>1. bimiDNS.at[p][s] \in Location
  BY DEF BimiTypeOK, Publication
<1>2. RecordsAt(p, s) \in Seq(BimiTags)
  BY <1>1 DEF Location, RecordsAt
<1> DEFINE q == RecordsAt(p, s)
<1>3. Len(q) \in Nat /\ (Len(q) = 1 => q[1] \in BimiTags) /\ (Len(q) = 1 => q # << >>)
  <2> HIDE DEF q
  <2>1. q \in Seq(BimiTags)
    BY <1>2 DEF q
  <2> QED
    BY <2>1
<1> QED
  BY <1>2, <1>3 DEF Usable

\* While the publication stays, so does what follows from it.
LEMMA SamePublication ==
  ASSUME UNCHANGED bimiDNS
  PROVE  /\ Governing' = Governing
         /\ \A p, s : RecordsAt(p, s)' = RecordsAt(p, s) /\ Usable(p, s)' = Usable(p, s)
         /\ \A t : Refines(t)' = Refines(t)
BY DEF Governing, RecordsAt, Usable, Refines

\* The nearest place visited that holds records is the governing one.
LEMMA NearestGoverns ==
  ASSUME DiscoveryInv,
         NEW visited,
         \/ /\ visited = {"domain"}
            /\ RecordsAt("domain", "requested") # << >> \/ ~bimiDNS.org
         \/ /\ visited = {"domain", "organization"}
            /\ RecordsAt("domain", "requested") = << >> /\ bimiDNS.org
  PROVE  /\ visited \subseteq Place
         /\ Holding(visited) # {} => FirstOf(Holding(visited)) = Governing
         /\ Holding(visited) = {} => RecordsAt(Governing, "requested") = << >>
         /\ FirstOf(Telling(visited)) \in Place /\ Governing \in Place
BY DEF Holding, FirstOf, Governing, Place

\* What Select chooses is the record of the governing place, and it parses where
\* anything is done with it.
LEMMA Selected ==
  ASSUME DiscoveryInv,
         NEW visited,
         \/ /\ visited = {"domain"}
            /\ RecordsAt("domain", "requested") # << >> \/ ~bimiDNS.org
         \/ /\ visited = {"domain", "organization"}
            /\ RecordsAt("domain", "requested") = << >> /\ bimiDNS.org,
         Select(visited)
  PROVE  DiscoveryInv' /\ (lookup' = "done" => bimi'.valid = FALSE)
<1> DEFINE found == RecordsAt(Governing, "requested")
<1>1. UNCHANGED bimiDNS /\ bimiDNS' \in Publication
  BY DEF Select, DiscoveryInv, BimiTypeOK
<1>2. /\ Holding(visited) # {} => FirstOf(Holding(visited)) = Governing
      /\ Holding(visited) = {} => found = << >>
      /\ FirstOf(Telling(visited)) \in Place /\ Governing \in Place
  BY NearestGoverns
<1>3. "requested" \in Selector
  BY DEF Selector
<1>4. /\ Len(found) = 1 => found[1] \in BimiTags
      /\ Usable(Governing, "requested") <=> Len(found) = 1 /\ found[1].ok
      /\ Len(found) \in Nat
      /\ Usable(Governing, "requested") => found # << >>
  BY <1>2, <1>3, AtTyped DEF DiscoveryInv, Usable
<1>5. CASE /\ Holding(visited) # {} /\ Len(found) = 1
           /\ bimi' = Parsed(found[1], Governing, "requested")
           /\ lookup' = AfterRecord(found[1])
  <2> DEFINE t == found[1]
  <2>1. t \in BimiTags /\ t.ok \in BOOLEAN
    BY <1>4, <1>5 DEF BimiTags
  <2>2. /\ bimi' \in BimiRecord /\ (RecordValid(bimi') <=> t.ok)
        /\ bimi'.place = Governing /\ bimi'.selector = "requested" /\ bimi'.tags = t
        /\ bimi'.checks = NoChecks /\ bimi'.valid = t.ok
    BY <1>2, <1>3, <1>5, <2>1, Constructed
  <2>3. /\ lookup' \in {"derived", "assets", "done"}
        /\ lookup' = "derived" => Refines(t)
        /\ lookup' \in {"derived", "assets"} => t.ok
        /\ lookup' = "done" => ~t.ok
    BY <1>5 DEF AfterRecord, Refines
  <2>4. RecordIsGoverning'
    <3>1. Usable(Governing, "requested") <=> t.ok
      BY <1>4, <1>5
    <3> HIDE DEF t
    <3> QED
      BY <1>1, <2>1, <2>2, <3>1, SamePublication DEF RecordIsGoverning, RecordValid, RecordsAt, t
  <2> HIDE DEF t
  <2> QED
    BY <1>1, <2>1, <2>2, <2>3, <2>4, SamePublication DEF DiscoveryInv, BimiTypeOK, RecordValid
<1>6. CASE \E a \in {"none", "several", "misplaced"}, p \in Place :
             /\ bimi' = NoneUsable(a, p) /\ lookup' = "done"
             /\ ~Usable(Governing, "requested")
  <2>1. /\ bimi' \in BimiRecord /\ ~RecordValid(bimi') /\ lookup' = "done"
        /\ bimi'.valid = FALSE /\ ~Usable(Governing, "requested")
    BY <1>6, Constructed
  <2>2. RecordIsGoverning'
    BY <1>1, <2>1, SamePublication DEF RecordIsGoverning, RecordValid
  <2> QED
    BY <1>1, <2>1, <2>2 DEF DiscoveryInv, BimiTypeOK
<1>7. \/ /\ Holding(visited) # {} /\ Len(found) = 1
         /\ bimi' = Parsed(found[1], Governing, "requested")
         /\ lookup' = AfterRecord(found[1])
      \/ \E a \in {"none", "several", "misplaced"}, p \in Place :
           /\ bimi' = NoneUsable(a, p) /\ lookup' = "done"
           /\ ~Usable(Governing, "requested")
  <2>1. "domain" \in Place
    BY DEF Place
  <2>2. NoIndicator = NoneUsable("none", "domain")
    BY DEF NoIndicator
  <2>3. CASE Holding(visited) # {}
    <3>1. FirstOf(Holding(visited)) = Governing
      BY <1>2, <2>3
    <3>2. Len(found) > 1 => ~Usable(Governing, "requested")
      <4> SUFFICES ASSUME Usable(Governing, "requested"), Len(found) > 1
                   PROVE  FALSE
        OBVIOUS
      <4>1. Len(found) = 1
        BY DEF Usable
      <4>2. \A n : n = 1 => ~(n > 1)
        OBVIOUS
      <4> QED
        BY <4>1, <4>2
    <3> QED
      BY <1>2, <2>3, <3>1, <3>2 DEF Select
  <2>4. CASE Holding(visited) = {}
    <3>1. ~Usable(Governing, "requested")
      BY <1>2, <1>4, <2>4
    <3> QED
      BY <1>2, <2>1, <2>2, <2>4, <3>1 DEF Select
  <2> QED
    BY <2>3, <2>4
<1> QED
  BY <1>5, <1>6, <1>7

\* The six verdicts, and what a valid record takes: DMARC does not fail, and a
\* certificate comes with a logo.
LEMMA ChecksTyped ==
  ASSUME NEW dmarc \in Status, NEW tags \in BimiTags,
         NEW logo \in LogoChecks(tags), NEW vmc \in CertificateChecks(tags)
  PROVE  LET checks == Checks(dmarc, tags, logo, vmc) IN
         /\ checks \in [CheckName -> Status]
         /\ checks["dmarc_enforcement"] = dmarc
         /\ (\A n \in CheckName : checks[n] # "fail") => dmarc # "fail" /\ (tags.l \/ ~tags.a)
<1>1. tags.l \in BOOLEAN /\ tags.a \in BOOLEAN
  BY DEF BimiTags
<1>2. /\ logo[1] \in Status /\ logo[2] \in Status /\ logo[3] \in Status
      /\ ~tags.l /\ tags.a => logo[1] = "fail"
  BY <1>1 DEF LogoChecks, Status
<1>3. vmc \in Status
  BY <1>1 DEF CertificateChecks, Status
<1> QED
  BY <1>1, <1>2, <1>3 DEF Checks, CheckName, Status

\* What a record that stays valid has passed.
LEMMA Validated ==
  ASSUME DiscoveryInv, NEW dmarc \in Status, ValidateAssets(dmarc), bimi'.valid
  PROVE  dmarc # "fail" /\ RecordValid(bimi') /\ (bimi'.tags.l \/ ~bimi'.tags.a)
<1>1. RecordValid(bimi) /\ bimi \in BimiRecord /\ bimi.tags \in BimiTags
  BY DEF ValidateAssets, DiscoveryInv, BimiTypeOK, BimiRecord
<1>2. PICK logo \in LogoChecks(bimi.tags), vmc \in CertificateChecks(bimi.tags) :
        bimi' = [bimi EXCEPT !.checks = Checks(dmarc, bimi.tags, logo, vmc),
                             !.valid  = \A n \in CheckName :
                                          Checks(dmarc, bimi.tags, logo, vmc)[n] # "fail"]
  BY DEF ValidateAssets
<1> DEFINE checks == Checks(dmarc, bimi.tags, logo, vmc)
<1>3. \A n \in CheckName : checks[n] # "fail"
  <2> HIDE DEF checks
  <2> QED
    BY <1>1, <1>2 DEF BimiRecord, checks
<1>4. dmarc # "fail" /\ (bimi.tags.l \/ ~bimi.tags.a)
  BY <1>1, <1>3, ChecksTyped
<1>5. bimi'.tags = bimi.tags /\ bimi'.answer = bimi.answer
  BY <1>1, <1>2 DEF BimiRecord
<1> QED
  BY <1>1, <1>4, <1>5 DEF RecordValid

\* One query, or the fetching of the files, keeps the invariant.
LEMMA DiscoveryStep ==
  ASSUME DiscoveryInv, NEW dmarc \in Status, CheckBIMI(dmarc)
  PROVE  DiscoveryInv' /\ (lookup' = "done" /\ bimi'.valid => ValidateAssets(dmarc))
<1>1. CASE QueryUnanswered
  <2>1. bimi' \in BimiRecord /\ ~RecordValid(bimi') /\ bimi'.answer = "failed" /\ bimi'.valid = FALSE
    <3>1. "domain" \in Place
      BY DEF Place
    <3> QED
      BY <1>1, <3>1, Constructed DEF QueryUnanswered
  <2>2. UNCHANGED bimiDNS /\ lookup' = "done"
    BY <1>1 DEF QueryUnanswered
  <2> QED
    BY <2>1, <2>2, SamePublication DEF DiscoveryInv, BimiTypeOK, RecordIsGoverning, RecordValid
<1>2. CASE LookupAtDomain /\ ~QueryUnanswered
  <2>1. CASE /\ RecordsAt("domain", "requested") = << >> /\ bimiDNS.org
             /\ lookup' = "organization"
             /\ UNCHANGED <<bimiDNS, bimi>>
    <3>1. bimi' = NoIndicator
      BY <1>2, <2>1 DEF LookupAtDomain, DiscoveryInv
    <3>2. ~RecordValid(bimi') /\ NoIndicator.checks = NoChecks
      BY <3>1, Constructed
    <3> QED
      BY <2>1, <3>1, <3>2, SamePublication
      DEF DiscoveryInv, BimiTypeOK, RecordIsGoverning, RecordValid, RecordsAt
  <2>2. CASE /\ RecordsAt("domain", "requested") # << >> \/ ~bimiDNS.org
             /\ Select({"domain"})
    BY <2>2, Selected
  <2> QED
    BY <1>2, <2>1, <2>2 DEF LookupAtDomain
<1>3. CASE LookupAtOrganization /\ ~QueryUnanswered
  <2>1. RecordsAt("domain", "requested") = << >> /\ bimiDNS.org /\ Select({"domain", "organization"})
    BY <1>3 DEF LookupAtOrganization, DiscoveryInv
  <2> QED
    BY <2>1, Selected
<1>4. CASE ApplyLocalPartSelector
  <2>1. UNCHANGED bimiDNS /\ lookup' = "assets" /\ lookup = "derived"
    BY <1>4 DEF ApplyLocalPartSelector
  <2>2. /\ RecordValid(bimi) /\ bimi.place = Governing /\ Usable(Governing, "requested")
        /\ bimi.tags = RecordsAt(Governing, "requested")[1] /\ Refines(bimi.tags)
        /\ bimi \in BimiRecord
    BY <2>1 DEF DiscoveryInv, RecordIsGoverning, BimiTypeOK
  <2>3. CASE UNCHANGED bimi
    BY <2>1, <2>2, <2>3, SamePublication
    DEF DiscoveryInv, BimiTypeOK, RecordIsGoverning, RecordValid, RecordsAt
  <2>4. CASE /\ Usable(Governing, "derived")
             /\ bimi' = Parsed(RecordsAt(Governing, "derived")[1], Governing, "derived")
    <3> DEFINE t == RecordsAt(Governing, "derived")[1]
    <3>1. Governing \in Place /\ "derived" \in Selector
      BY DEF Governing, Place, Selector
    <3>2. t \in BimiTags /\ t.ok
      BY <2>4, <3>1, AtTyped DEF DiscoveryInv, Usable
    <3>3. /\ bimi' \in BimiRecord /\ RecordValid(bimi') /\ bimi'.place = Governing
          /\ bimi'.selector = "derived" /\ bimi'.tags = t
      BY <2>4, <3>1, <3>2, Constructed
    <3>4. Refines(RecordsAt(Governing, "requested")[1])
      BY <2>2
    <3>5. /\ Governing' = Governing /\ Usable(Governing, "requested")'
          /\ Usable(Governing, "derived")' /\ Refines(RecordsAt(Governing, "requested")[1])'
          /\ t = RecordsAt(Governing, "derived")[1]'
      BY <2>1, <2>2, <2>4, <3>4 DEF Governing, Usable, RecordsAt, Refines
    <3>6. RecordIsGoverning'
      <4> HIDE DEF t
      <4> QED
        BY <3>3, <3>5 DEF RecordIsGoverning, RecordValid
    <3> HIDE DEF t
    <3> QED
      BY <2>1, <3>3, <3>6 DEF DiscoveryInv, BimiTypeOK, RecordValid
  <2> QED
    BY <1>4, <2>2, <2>3, <2>4 DEF ApplyLocalPartSelector, Usable
<1>5. CASE ValidateAssets(dmarc)
  <2>1. /\ UNCHANGED bimiDNS /\ lookup' = "done" /\ RecordValid(bimi) /\ bimi \in BimiRecord
        /\ RecordIsGoverning
    BY <1>5 DEF ValidateAssets, DiscoveryInv, BimiTypeOK
  <2>2. PICK checks \in [CheckName -> Status] :
          bimi' = [bimi EXCEPT !.checks = checks, !.valid = \A n \in CheckName : checks[n] # "fail"]
    <3>1. PICK logo \in LogoChecks(bimi.tags), vmc \in CertificateChecks(bimi.tags) :
            bimi' = [bimi EXCEPT !.checks = Checks(dmarc, bimi.tags, logo, vmc),
                                 !.valid  = \A n \in CheckName :
                                              Checks(dmarc, bimi.tags, logo, vmc)[n] # "fail"]
      BY <1>5 DEF ValidateAssets
    <3>2. bimi.tags \in BimiTags
      BY <2>1 DEF BimiRecord
    <3>3. Checks(dmarc, bimi.tags, logo, vmc) \in [CheckName -> Status]
      BY <3>2, ChecksTyped
    <3> QED
      BY <3>1, <3>3
  <2>3. /\ bimi' \in BimiRecord /\ RecordValid(bimi') /\ bimi'.answer = bimi.answer
        /\ bimi'.place = bimi.place /\ bimi'.selector = bimi.selector /\ bimi'.tags = bimi.tags
    BY <2>1, <2>2 DEF BimiRecord, RecordValid
  <2> QED
    BY <1>5, <2>1, <2>3, SamePublication DEF DiscoveryInv, BimiTypeOK, RecordIsGoverning, RecordValid, RecordsAt
<1> QED
  BY <1>1, <1>2, <1>3, <1>4, <1>5 DEF CheckBIMI, LookupAtDomain, LookupAtOrganization

\* The verdict of CheckDMARCEnforcement is a status, and no failure means enforced.
LEMMA Enforcement ==
  /\ CheckDMARCEnforcement(CheckDMARCRecord) \in Status
  /\ CheckDMARCEnforcement(CheckDMARCRecord) # "fail" => Enforced(CheckDMARCRecord)
BY DEF CheckDMARCEnforcement, Status

\* Whatever is published and whichever queries fail, the record reported is the one
\* that governs the sender.
THEOREM DiscoveryInvariance == Spec => []DiscoveryInv
<1>1. Init => DiscoveryInv
  <2> SUFFICES ASSUME Init PROVE DiscoveryInv
    OBVIOUS
  <2>1. bimiDNS \in Publication /\ lookup = "domain" /\ bimi = NoIndicator
    BY ScenarioAssumption DEF Init, BimiInit
  <2> QED
    BY <2>1, Constructed DEF DiscoveryInv, BimiTypeOK, RecordIsGoverning
<1>2. DiscoveryInv /\ [Next]_vars => DiscoveryInv'
  <2> SUFFICES ASSUME DiscoveryInv, [Next]_vars PROVE DiscoveryInv'
    OBVIOUS
  <2>1. CASE UNCHANGED bimiVars
    BY <2>1, SamePublication
    DEF bimiVars, DiscoveryInv, BimiTypeOK, RecordIsGoverning, RecordValid, RecordsAt
  <2>2. CASE CheckBIMI(CheckDMARCEnforcement(CheckDMARCRecord))
    BY <2>2, DiscoveryStep, Enforcement
  <2> QED
    BY <2>1, <2>2, AnalysisStep
<1> QED
  BY <1>1, <1>2, PTL DEF Spec

\* The record of the governing place, for the sender at hand.
THEOREM OwnRecord == Spec => []RecordIsGoverning
<1>1. DiscoveryInv => RecordIsGoverning
  BY DEF DiscoveryInv
<1> QED
  BY <1>1, DiscoveryInvariance, PTL

\* BIMI is looked up after DMARC, which then stays as it is, and is over when its
\* stage is.
EnforcedInv ==
  /\ stage \in {"mx", "spf", "returnOK", "dmarc"} => lookup = "domain"
  /\ stage \in {"score", "done"} => lookup = "done"
  /\ lookup = "done" /\ bimi.valid =>
       Enforced(CheckDMARCRecord) /\ RecordValid(bimi) /\ (bimi.tags.l \/ ~bimi.tags.a)

\* What CheckDMARCEnforcement reads is the walk's.
LEMMA SameEnforcement ==
  ASSUME UNCHANGED dmarcVars
  PROVE  CheckDMARCRecord' = CheckDMARCRecord /\ Enforced(CheckDMARCRecord)' = Enforced(CheckDMARCRecord)
<1>1. CheckDMARCRecord' = CheckDMARCRecord /\ Current' = Current /\ labels' = labels
  BY DEF dmarcVars, CheckDMARCRecord, Current
<1> QED
  BY <1>1 DEF Enforced, Applicable

LEMMA EnforcedStep ==
  ASSUME DiscoveryInv, EnforcedInv, [Next]_vars
  PROVE  EnforcedInv'
<1>1. CASE CheckBIMIRecord
  <2> DEFINE dmarc == CheckDMARCEnforcement(CheckDMARCRecord)
  <2>1. dmarc \in Status /\ CheckBIMI(dmarc) /\ (dmarc # "fail" => Enforced(CheckDMARCRecord))
    BY <1>1, Enforcement DEF CheckBIMIRecord
  <2>2. stage' = CASE lookup' # "done" -> "bimi"
                   [] lookup' = "done" /\ request = "domain" -> "score"
                   [] OTHER -> "done"
    BY <1>1 DEF CheckBIMIRecord
  <2>3. Enforced(CheckDMARCRecord)' = Enforced(CheckDMARCRecord)
    BY <1>1, SameEnforcement DEF CheckBIMIRecord, dmarcVars
  <2> HIDE DEF dmarc
  <2>4. ASSUME lookup' = "done", bimi'.valid
        PROVE  dmarc # "fail" /\ RecordValid(bimi') /\ (bimi'.tags.l \/ ~bimi'.tags.a)
    BY <2>1, <2>4, DiscoveryStep, Validated
  <2> QED
    BY <2>1, <2>2, <2>3, <2>4 DEF EnforcedInv, RecordValid
<1>2. CASE CheckDMARC
  <2>1. lookup = "domain" /\ UNCHANGED bimiVars /\ stage' \in {"dmarc", "bimi"}
    BY <1>2 DEF CheckDMARC, EnforcedInv
  <2> QED
    BY <2>1 DEF EnforcedInv, bimiVars
<1>3. CASE CheckMXRecords \/ CheckSPFRecords \/ CheckReturnOK
  <2>1. lookup = "domain" /\ UNCHANGED bimiVars /\ stage' \in {"spf", "returnOK", "dmarc"}
    BY <1>3 DEF CheckMXRecords, CheckSPFRecords, CheckReturnOK, EnforcedInv
  <2> QED
    BY <2>1 DEF EnforcedInv, bimiVars
<1>4. CASE CalculateDomainOnlyScore \/ UNCHANGED vars
  <2>1. UNCHANGED bimiVars /\ UNCHANGED dmarcVars /\ (stage' = stage \/ (stage = "score" /\ stage' = "done"))
    BY <1>4 DEF CalculateDomainOnlyScore, vars, own
  <2>2. Enforced(CheckDMARCRecord)' = Enforced(CheckDMARCRecord)
    BY <2>1, SameEnforcement
  <2>3. lookup' = lookup /\ bimi' = bimi
    BY <2>1 DEF bimiVars
  <2> QED
    BY <2>1, <2>2, <2>3 DEF EnforcedInv, RecordValid
<1> QED
  BY <1>1, <1>2, <1>3, <1>4 DEF Next

\* A BIMI record is valid at the end only where DMARC is enforced for the domain
\* asked about, and its files are named as they must be.
THEOREM Displayable == Spec => []ValidMeansEnforced
<1>1. Init => EnforcedInv
  BY DEF Init, BimiInit, EnforcedInv
<1>2. EnforcedInv => ValidMeansEnforced
  BY DEF EnforcedInv, ValidMeansEnforced
<1> QED
  BY <1>1, <1>2, EnforcedStep, DiscoveryInvariance, PTL DEF Spec

\* Every variable of the analysis stays in its type, for any zone.
THEOREM TypeCorrect == Spec => []TypeOK
<1>1. WalkInv /\ SpfInv /\ ScoreInv /\ DiscoveryInv => TypeOK
  <2> SUFFICES ASSUME WalkInv, SpfInv, ScoreInv PROVE score \in 0..100
    BY DEF TypeOK, WalkInv, SpfInv, ScoreInv, DiscoveryInv
  <2>1. \A w \in Int : Clipped(w) \in 0..100
    BY DEF Clipped
  <2> QED
    BY <2>1, Weighing DEF ScoreInv, Request
<1> QED
  BY <1>1, WalkInvariance, TraversalInvariance, ScoreInvariance, DiscoveryInvariance, PTL

\* A full score takes a place to send mail back to, an SPF policy that refuses
\* others and a DMARC policy that rejects.
THEOREM Full == Spec => []FullScoreNeedsEveryCheck
<1>1. WalkInv /\ ScoreInv => FullScoreNeedsEveryCheck
  <2> SUFFICES ASSUME WalkInv, ScoreInv, score = 100
               PROVE  /\ mx
                      /\ Valid(records[MainIndex(records)])
                      /\ records[MainIndex(records)].all \in {"-", "~"}
                      /\ CheckDMARCRecord.valid
                      /\ CheckDMARCRecord.policy = "reject" /\ ~CheckDMARCRecord.test
    BY DEF FullScoreNeedsEveryCheck
  <2> DEFINE w == Weighted(mx, records, CheckDMARCRecord, returnOK)
  <2>1. w \in Int /\ Clipped(w) = 100
    BY Weighing DEF ScoreInv, Request
  <2>2. w >= 100
    <3> HIDE DEF w
    <3> QED
      BY <2>1 DEF Clipped
  <2>3. /\ mx /\ CalculateSPFScore(records, DmarcStrict(CheckDMARCRecord)) > 75
        /\ CalculateDMARCScore(CheckDMARCRecord) > 90
    BY <2>2, Weighing
  <2>4. DmarcStrict(CheckDMARCRecord) \in BOOLEAN
    BY DEF DmarcStrict
  <2>5. Valid(records[MainIndex(records)]) /\ records[MainIndex(records)].all \in {"-", "~"}
    BY <2>3, <2>4, SpfScore
  <2>6. CheckDMARCRecord.valid /\ CheckDMARCRecord.policy = "reject" /\ ~CheckDMARCRecord.test
    BY <2>3, FoundScore DEF WalkInv
  <2> QED
    BY <2>3, <2>5, <2>6
<1> QED
  BY <1>1, WalkInvariance, ScoreInvariance, PTL

\* Publishing a DMARC record, whatever its tags, never lowers the weighted sum.
THEOREM Publishing == Spec => []PublishingDMARCNeverCosts
<1>1. WalkInv /\ ScoreInv => PublishingDMARCNeverCosts
  BY Weighing DEF PublishingDMARCNeverCosts
<1> QED
  BY <1>1, WalkInvariance, ScoreInvariance, PTL

-----------------------------------------------------------------------------
(* The record that is scored                                               *)


\* What MainIndex chooses: a record of the list, behind redirects only, and no
\* redirect itself unless it is the last of them.
LEMMA MainRecord ==
  ASSUME NEW rs \in Seq(Record), rs # << >>
  PROVE  LET k == MainIndex(rs) IN
         /\ k \in DOMAIN rs
         /\ \A j \in DOMAIN rs : j < k => rs[j].redirect
         /\ rs[k].redirect => k = Len(rs) /\ \A j \in DOMAIN rs : rs[j].redirect
<1> DEFINE n    == Len(rs)
           kept == {j \in DOMAIN rs : ~rs[j].redirect}
<1>1. n \in Nat \ {0} /\ DOMAIN rs = 1..n
  OBVIOUS
<1>2. \A k : k \in LeadingRedirects(rs) <=> k \in 1..n /\ \A j \in 1..k : rs[j].redirect
  BY <1>1 DEF LeadingRedirects
<1>3. CASE n \in LeadingRedirects(rs)
  <2>1. MainIndex(rs) = n
    BY <1>3 DEF MainIndex
  <2> QED
    BY <1>1, <1>2, <1>3, <2>1
<1>4. CASE n \notin LeadingRedirects(rs)
  <2>1. kept # {} /\ kept \in SUBSET Nat
    BY <1>1, <1>2, <1>4
  <2>2. PICK k \in kept : \A j \in kept : k <= j
    <3> HIDE DEF kept
    <3> QED
      BY <2>1, Least
  <2>3. k \in DOMAIN rs /\ k \notin LeadingRedirects(rs)
    BY <1>1, <1>2, <2>2
  <2>4. 1..(k - 1) \subseteq LeadingRedirects(rs)
    <3>1. ASSUME NEW i \in 1..(k - 1), NEW j \in 1..i PROVE rs[j].redirect
      <4>1. j \in DOMAIN rs /\ j < k
        BY <1>1, <2>2
      <4> QED
        BY <2>2, <4>1
    <3>2. \A i \in 1..(k - 1) : i \in 1..n
      BY <1>1, <2>2
    <3> QED
      BY <1>2, <3>1, <3>2
  <2> DEFINE m == MainIndex(rs)
  <2>5. m \in DOMAIN rs /\ m \notin LeadingRedirects(rs) /\ 1..(m - 1) \subseteq LeadingRedirects(rs)
    BY <1>4, <2>3, <2>4 DEF MainIndex
  <2> HIDE DEF m
  <2>6. \A j \in DOMAIN rs : j < m => rs[j].redirect
    BY <1>1, <1>2, <2>5
  <2>7. ~rs[m].redirect
    <3> SUFFICES ASSUME rs[m].redirect PROVE FALSE
      OBVIOUS
    <3>1. \A j \in 1..m : j < m \/ j = m
      BY <1>1, <2>5
    <3>2. \A j \in 1..m : rs[j].redirect
      BY <1>1, <2>5, <2>6, <3>1
    <3> QED
      BY <1>1, <1>2, <2>5, <3>2
  <2> QED
    BY <2>5, <2>6, <2>7 DEF m
<1> QED
  BY <1>3, <1>4

\* No record before n is anything but a redirect with a target.
Leads(n) == \A j \in 1..n : records[j].redirect /\ zone[records[j].domain].redirect # "empty"

\* While the list is made of redirects, one domain at most waits for its turn: the
\* target of the last one.
ChainInv ==
  \A n \in 0..Len(records) : Leads(n) =>
    LET target == zone[records[n].domain].redirect IN
    /\ n = Len(records) =>
         /\ Len(pending) <= 1
         /\ n > 0 /\ Followed(records[n]) /\ pending # << >> => Head(pending).domain = target
    /\ 0 < n /\ n < Len(records) /\ Followed(records[n]) => records[n + 1].domain = target

\* One more record, for the domain whose turn it is.
LEMMA ChainReport ==
  ASSUME SpfTypeOK, ChainInv, pending # << >>, NEW r \in Record, r.domain = Head(pending).domain,
         records' = Append(records, r), zone' = zone,
         r.redirect /\ zone[r.domain].redirect # "empty" /\ Len(pending) <= 1 =>
           /\ Len(pending') <= 1
           /\ Followed(r) /\ pending' # << >> => Head(pending').domain = zone[r.domain].redirect
  PROVE  ChainInv'
<1> DEFINE L == Len(records)
<1>1. records \in Seq(Record) /\ L \in Nat
  BY DEF SpfTypeOK
<1>2. Len(records') = L + 1 /\ records'[L + 1] = r /\ \A k \in 1..L : records'[k] = records[k]
  BY <1>1
<1>3. \A n \in 0..L : Leads(n)' <=> Leads(n)
  <2> SUFFICES ASSUME NEW n \in 0..L PROVE Leads(n)' <=> Leads(n)
    OBVIOUS
  <2>1. \A j \in 1..n : records'[j] = records[j]
    BY <1>1, <1>2
  <2> QED
    BY <2>1 DEF Leads
<1>4. ASSUME NEW n, n = L + 1, Leads(n)'
      PROVE  Leads(L) /\ r.redirect /\ zone[r.domain].redirect # "empty"
  <2>1. \A j \in 1..(L + 1) : records'[j].redirect /\ zone[records'[j].domain].redirect # "empty"
    BY <1>4 DEF Leads
  <2>2. L + 1 \in 1..(L + 1) /\ \A j \in 1..L : j \in 1..(L + 1)
    BY <1>1
  <2> QED
    BY <1>2, <2>1, <2>2 DEF Leads
<1>5. ASSUME NEW n \in 0..(L + 1), Leads(n)'
      PROVE  LET target == zone[records'[n].domain].redirect IN
             /\ n = L + 1 =>
                  /\ Len(pending') <= 1
                  /\ n > 0 /\ Followed(records'[n]) /\ pending' # << >> => Head(pending').domain = target
             /\ 0 < n /\ n < L + 1 /\ Followed(records'[n]) => records'[n + 1].domain = target
  <2>1. CASE n = L + 1
    <3>1. Leads(L) /\ r.redirect /\ zone[r.domain].redirect # "empty"
      BY <1>4, <1>5, <2>1
    <3>2. Len(pending) <= 1
      BY <1>1, <3>1 DEF ChainInv
    <3>3. /\ Len(pending') <= 1
          /\ Followed(r) /\ pending' # << >> => Head(pending').domain = zone[r.domain].redirect
      BY <3>1, <3>2
    <3>4. records'[n] = r /\ ~(n < L + 1)
      BY <1>1, <1>2, <2>1
    <3> QED
      BY <3>3, <3>4
  <2>2. CASE n = L
    <3>1. Leads(n)
      BY <1>1, <1>3, <1>5, <2>2
    <3>2. 0 < n /\ Followed(records[n]) => r.domain = zone[records[n].domain].redirect
      BY <1>1, <2>2, <3>1 DEF ChainInv
    <3> QED
      BY <1>1, <1>2, <2>2, <3>2
  <2>3. CASE n < L
    <3>1. Leads(n) /\ n \in 0..Len(records)
      BY <1>1, <1>3, <1>5, <2>3
    <3>2. 0 < n /\ Followed(records[n]) => records[n + 1].domain = zone[records[n].domain].redirect
      BY <2>3, <3>1 DEF ChainInv
    <3> QED
      BY <1>1, <1>2, <2>3, <3>2
  <2> QED
    BY <1>1, <2>1, <2>2, <2>3
<1> QED
  BY <1>2, <1>5 DEF ChainInv

LEMMA ChainStep ==
  ASSUME SpfTypeOK, ChainInv, ResolveSPFRecords
  PROVE  ChainInv'
<1> DEFINE c == Head(pending)
           a == zone[c.domain]
           rest == Tail(pending)
<1>1. pending # << >> /\ pending \in Seq(Call)
  BY DEF SpfTypeOK, ResolveSPFRecords
<1>2. c \in Call /\ c.domain \in Domains /\ c.depth \in Nat /\ rest \in Seq(Call)
  BY <1>1, Turn
<1>3. a \in Answer
  BY <1>2 DEF SpfTypeOK
<1>4. Len(pending) <= 1 => rest = << >>
  BY <1>1
<1>5. ASSUME NEW r \in Record, r.domain = c.domain, ~r.redirect \/ ~Followed(r), Return(r)
      PROVE  ChainInv'
  <2>1. records' = Append(records, r) /\ zone' = zone /\ pending' = rest
    BY <1>5 DEF Return
  <2>2. Len(pending) <= 1 => Len(pending') <= 1 /\ pending' = << >>
    BY <1>4, <2>1
  <2> QED
    BY <1>1, <1>5, <2>1, <2>2, ChainReport
<1>6. CASE TooDeep(c)
  <2>1. Missing(c.domain, "too deep") \in Record
    BY <1>2, <1>3, RecordType DEF Error
  <2> QED
    BY <1>5, <1>6, <2>1 DEF TooDeep, Missing
<1>7. CASE LookupFails(c)
  <2>1. Missing(c.domain, "lookup") \in Record
    BY <1>2, <1>3, RecordType DEF Error
  <2> QED
    BY <1>5, <1>7, <2>1 DEF LookupFails, Missing
<1>8. CASE NoRecord(c)
  <2>1. Missing(c.domain, "absent") \in Record
    BY <1>2, <1>3, RecordType DEF Error
  <2> QED
    BY <1>5, <1>8, <2>1 DEF NoRecord, Missing
<1>9. CASE SeveralRecords(c)
  <2>1. Several(c.domain, a) \in Record
    BY <1>2, <1>3, RecordType
  <2> QED
    BY <1>5, <1>9, <2>1 DEF SeveralRecords, Several, Followed
<1>10. CASE OneRecord(c)
  <2> DEFINE r == Single(c.domain, a, c.depth)
  <2>1. r \in Record
    BY <1>2, <1>3, RecordType
  <2>2. r.domain = c.domain /\ r.redirect = (a.redirect # None)
    BY DEF Single
  <2>3. records' = Append(records, r) /\ zone' = zone /\ pending' = Calls(a, c.depth) \o rest
    BY <1>10 DEF OneRecord
  <2>4. ASSUME r.redirect, a.redirect # "empty", Len(pending) <= 1
        PROVE  Len(pending') <= 1 /\ pending' # << >> /\ Head(pending').domain = a.redirect
    <3>1. a.redirect \in Domains
      BY <1>3, <2>2, <2>4 DEF Answer
    <3>2. Targets(a) = <<a.redirect>>
      BY <3>1 DEF Targets
    <3>3. Calls(a, c.depth) = [k \in {1} |-> [domain |-> a.redirect, depth |-> c.depth + 1]]
      BY <3>2 DEF Calls
    <3> DEFINE call == [domain |-> a.redirect, depth |-> c.depth + 1]
    <3>4. Calls(a, c.depth) = <<call>>
      BY <3>3
    <3>5. pending' = <<call>> \o << >>
      BY <1>4, <2>3, <2>4, <3>4
    <3>6. call.domain = a.redirect
      OBVIOUS
    <3> HIDE DEF call
    <3> QED
      BY <3>5, <3>6
  <2> HIDE DEF r
  <2> QED
    BY <1>1, <2>1, <2>2, <2>3, <2>4, ChainReport
<1>11. CASE AskedBefore(c)
  <2>1. pending' = rest /\ records' = records /\ zone' = zone
    BY <1>11 DEF AskedBefore
  <2>2. \A n : Leads(n)' <=> Leads(n)
    BY <2>1 DEF Leads
  <2>3. Len(pending) <= 1 => Len(pending') <= 1 /\ pending' = << >>
    BY <1>4, <2>1
  <2> QED
    BY <2>1, <2>2, <2>3 DEF ChainInv
<1> QED
  BY <1>6, <1>7, <1>8, <1>9, <1>10, <1>11 DEF ResolveSPFRecords

\* The chain of leading redirects, for any zone and depth limit.
THEOREM ChainInvariance == Spec => []ChainInv
<1>1. Init => ChainInv
  <2> SUFFICES ASSUME Init PROVE ChainInv
    OBVIOUS
  <2>1. records = << >> /\ pending = <<[domain |-> Main, depth |-> 0]>>
    BY DEF Init, SpfInit
  <2> QED
    BY <2>1 DEF ChainInv
<1>2. SpfInv /\ ChainInv /\ [Next]_vars => ChainInv'
  <2> SUFFICES ASSUME SpfInv, ChainInv, [Next]_vars PROVE ChainInv'
    OBVIOUS
  <2>1. SpfTypeOK
    BY DEF SpfInv
  <2>2. CASE UNCHANGED spfVars
    <3>1. \A n : Leads(n)' <=> Leads(n)
      BY <2>2 DEF spfVars, Leads
    <3> QED
      BY <2>2, <3>1 DEF spfVars, ChainInv
  <2> QED
    BY <2>1, <2>2, AnalysisStep, ChainStep
<1> QED
  BY <1>1, <1>2, TraversalInvariance, PTL DEF Spec

\* The record that is scored is where the redirects lead.
THEOREM RedirectsLead == Spec => []ScoredWhereRedirectsLead
<1>1. SpfInv /\ ChainInv => ScoredWhereRedirectsLead
  <2> SUFFICES ASSUME SpfInv, ChainInv, NEW k \in 1..Len(records), Followed(records[k]),
                      k < MainIndex(records),
                      \A j \in 1..k : zone[records[j].domain].redirect # "empty"
               PROVE  records[k + 1].domain = zone[records[k].domain].redirect
    BY DEF ScoredWhereRedirectsLead
  <2>1. records \in Seq(Record) /\ records # << >> /\ Len(records) \in Nat
    BY DEF SpfInv, SpfTypeOK
  <2>2. MainIndex(records) \in 1..Len(records)
    BY <2>1, MainRecord
  <2>3. \A j \in 1..k : j \in DOMAIN records /\ j < MainIndex(records)
    BY <2>1, <2>2
  <2>4. Leads(k)
    BY <2>1, <2>3, MainRecord DEF Leads
  <2>5. k \in 0..Len(records) /\ 0 < k /\ k < Len(records)
    BY <2>1, <2>2
  <2> QED
    BY <2>4, <2>5 DEF ChainInv
<1> QED
  BY <1>1, TraversalInvariance, ChainInvariance, PTL

-----------------------------------------------------------------------------
(* The cards                                                               *)

\* The traversal has not ended without a record, and has ended where its stage has.
CollectedInv ==
  /\ records = << >> => pending # << >>
  /\ request = "domain" /\ stage \notin {"mx", "spf"} => pending = << >>

LEMMA CollectedStep ==
  ASSUME SpfInv, CollectedInv, [Next]_vars
  PROVE  CollectedInv'
<1>1. records' = << >> => pending' # << >>
  <2>1. CASE UNCHANGED spfVars
    BY <2>1 DEF CollectedInv, spfVars
  <2>2. CASE ResolveSPFRecords
    <3> DEFINE c == Head(pending)
    <3>0. records \in Seq(Record)
      BY DEF SpfInv, SpfTypeOK
    <3>1. CASE AskedBefore(c)
      <4>1. c.domain \in asked /\ records' = records
        BY <3>1 DEF AskedBefore
      <4>2. records # << >>
        BY <4>1 DEF SpfInv, AskedOnce
      <4> QED
        BY <4>1, <4>2
    <3>2. ASSUME NEW r, records' = Append(records, r) PROVE records' # << >>
      BY <3>0, <3>2
    <3>3. CASE ~AskedBefore(c)
      BY <2>2, <3>2, <3>3
      DEF ResolveSPFRecords, TooDeep, LookupFails, NoRecord, SeveralRecords, OneRecord, Return
    <3> QED
      BY <3>1, <3>3
  <2> QED
    BY <2>1, <2>2, AnalysisStep
<1>2. request' = "domain" /\ stage' \notin {"mx", "spf"} => pending' = << >>
  <2>1. CASE CheckSPFRecords
    BY <2>1 DEF CheckSPFRecords
  <2>2. CASE CheckMXRecords
    BY <2>2 DEF CheckMXRecords
  <2>3. CASE CheckReturnOK
    BY <2>3 DEF CheckReturnOK, CollectedInv, spfVars
  <2>4. CASE CheckDMARC
    BY <2>4 DEF CheckDMARC, CollectedInv, spfVars
  <2>5. CASE CheckBIMIRecord
    BY <2>5 DEF CheckBIMIRecord, CollectedInv, spfVars
  <2>6. CASE CalculateDomainOnlyScore
    BY <2>6 DEF CalculateDomainOnlyScore, CollectedInv, spfVars
  <2>7. CASE UNCHANGED vars
    BY <2>7 DEF vars, own, CollectedInv, spfVars
  <2> QED
    BY <2>1, <2>2, <2>3, <2>4, <2>5, <2>6, <2>7 DEF Next
<1> QED
  BY <1>1, <1>2 DEF CollectedInv

\* The header's record is the one that is scored, unless all redirect.
LEMMA ShownIsScored ==
  ASSUME NEW rs \in Seq(Record), rs # << >>
  PROVE  LET k == MainIndex(rs) IN
         (\E j \in DOMAIN rs : ~rs[j].redirect) => ~rs[k].redirect /\ ShownPolicy(rs) = rs[k].all
<1> DEFINE k    == MainIndex(rs)
           kept == {j \in DOMAIN rs : ~rs[j].redirect}
<1> SUFFICES ASSUME \E j \in DOMAIN rs : ~rs[j].redirect
             PROVE  ~rs[k].redirect /\ ShownPolicy(rs) = rs[k].all
  OBVIOUS
<1>1. k \in DOMAIN rs /\ (\A j \in DOMAIN rs : j < k => rs[j].redirect) /\ ~rs[k].redirect
  BY MainRecord
<1> HIDE DEF k
<1>2. DOMAIN rs \subseteq Nat
  OBVIOUS
<1>3. k \in kept /\ kept # {} /\ \A j \in kept : j \in Nat /\ k \in Nat /\ ~(j < k)
  BY <1>1, <1>2
<1>4. \A j \in kept : k <= j
  BY <1>3
<1>5. \A i \in kept : (\A j \in kept : i <= j) => i = k
  BY <1>3, <1>4
<1> DEFINE first == CHOOSE i \in kept : \A j \in kept : i <= j
<1>6. first = k
  <2> HIDE DEF kept
  <2> QED
    BY <1>3, <1>4, <1>5
<1>7. ShownPolicy(rs) = rs[first].all
  BY <1>3 DEF ShownPolicy
<1> QED
  BY <1>1, <1>6, <1>7

\* What each policy is worth in a valid record.
LEMMA Worth ==
  ASSUME NEW rs \in Seq(Record), rs # << >>, Valid(rs[MainIndex(rs)]), NEW strict \in BOOLEAN
  PROVE  /\ CalculateSPFScore(rs, strict) >= 50
         /\ (CalculateSPFScore(rs, FALSE) < 100) = (rs[MainIndex(rs)].all # "-")
         /\ rs[MainIndex(rs)].all = "-" => CalculateSPFScore(rs, strict) = 100
<1> DEFINE all  == rs[MainIndex(rs)].all
           is   == AllScore(all, strict)
           was  == AllScore(all, FALSE)
           now  == CalculateSPFScore(rs, strict)
           then == CalculateSPFScore(rs, FALSE)
<1>1. now = 75 + is /\ then = 75 + was
  BY DEF CalculateSPFScore
<1>2. /\ is \in {0 - 25, 0, 20, 25} /\ (all = "-" => is = 25)
      /\ was \in {0 - 25, 0, 25} /\ (was = 25 <=> all = "-")
  BY DEF AllScore
<1> HIDE DEF all, is, was, now, then
<1>3. now >= 50 /\ (then < 100 <=> all # "-") /\ (all = "-" => now = 100)
  BY <1>1, <1>2
<1>4. (then < 100) = (all # "-")
  BY <1>3
<1> QED
  BY <1>3, <1>4 DEF all, now, then

\* What the SPF card says agrees with the score, for any zone.
THEOREM SpfCard == Spec => []SpfCardAgrees
<1>1. Init => CollectedInv
  <2> SUFFICES ASSUME Init PROVE CollectedInv
    OBVIOUS
  <2>1. pending = <<[domain |-> Main, depth |-> 0]>> /\ pending # << >>
    BY DEF Init, SpfInit
  <2>2. request = "domain" => stage = "mx"
    BY DEF Init
  <2> QED
    BY <2>1, <2>2 DEF CollectedInv
<1>2. SpfInv /\ CollectedInv => SpfCardAgrees
  <2> SUFFICES ASSUME SpfInv, CollectedInv, request = "domain", stage = "done" PROVE SpfCardAgrees
    BY DEF SpfCardAgrees
  <2> DEFINE strict == DmarcStrict(CheckDMARCRecord)
             m      == MainIndex(records)
             points == CalculateSPFScore(records, strict)
             kept   == \E k \in DOMAIN records : ~records[k].redirect
  <2>1. records \in Seq(Record) /\ records # << >> /\ strict \in BOOLEAN
    BY DEF SpfInv, SpfTypeOK, CollectedInv, DmarcStrict
  <2>2. m \in DOMAIN records
    BY <2>1, MainRecord
  <2>3. ASSUME SpfIsValid(records), ~strict, kept
        PROVE  (SpfIcon(records, strict) = "improve") = (points < 100)
    <3>1. ShownPolicy(records) = records[m].all
      BY <2>1, <2>3, ShownIsScored
    <3>2. (points < 100) = (records[m].all # "-")
      <4>1. Valid(records[m]) /\ strict = FALSE
        BY <2>1, <2>2, <2>3 DEF SpfIsValid
      <4> HIDE DEF strict
      <4> QED
        BY <2>1, <4>1, Worth
    <3>3. SpfIcon(records, strict) = "improve" <=> records[m].all # "-"
      BY <2>1, <2>3, <3>1 DEF SpfIcon, SpfCanBeImprove
    <3> HIDE DEF points, m, strict
    <3> QED
      BY <3>2, <3>3
  <2>4. ASSUME SpfIsValid(records), strict PROVE SpfIcon(records, strict) = "success" /\ points >= 50
    <3>1. Valid(records[m])
      BY <2>2, <2>4 DEF SpfIsValid
    <3>2. points >= 50
      BY <2>1, <3>1, Worth
    <3>3. SpfIcon(records, strict) = "success"
      BY <2>1, <2>4 DEF SpfIcon, SpfCanBeImprove
    <3> QED
      BY <3>2, <3>3
  <2>5. ASSUME NEW k \in DOMAIN records, SpfAdvice(records, k, strict) = "recommended",
               Valid(records[k]), ~records[k].redirect
        PROVE  points = 100
    <3>1. Advised(records, k) /\ records[k].all = "-"
      BY <2>5 DEF SpfAdvice, NotDrawn
    <3>2. k = m
      <4>1. k = 1 \/ (k = 2 /\ records[1].redirect)
        BY <3>1 DEF Advised
      <4>2. DOMAIN records \subseteq Nat \ {0} /\ 1 \in DOMAIN records
        BY <2>1
      <4>3. ~records[m].redirect /\ \A j \in DOMAIN records : j < m => records[j].redirect
        BY <2>1, <2>5, MainRecord
      <4>4. ~(k < m)
        BY <2>5, <4>3
      <4> QED
        BY <2>2, <2>5, <4>1, <4>2, <4>3, <4>4
    <3> QED
      BY <2>1, <2>5, <3>1, <3>2, Worth
  <2> HIDE DEF strict, points
  <2> QED
    BY <2>3, <2>4, <2>5 DEF SpfCardAgrees, strict, points
<1> QED
  BY <1>1, <1>2, CollectedStep, TraversalInvariance, PTL DEF Spec

\* What the DMARC card says agrees with the score and with the walk.
THEOREM DmarcCard == Spec => []DmarcCardAgrees
<1>1. WalkInv => DmarcCardAgrees
  <2> SUFFICES ASSUME WalkInv, walk = "found" PROVE DmarcCardAgrees
    BY DEF DmarcCardAgrees
  <2> DEFINE r   == CheckDMARCRecord
             sub == IF r.sp = Absent THEN r.policy ELSE r.sp
             tags == published[Current]
  <2>1. tags \in Tags /\ r = ParseDMARC(tags) /\ Current \in 1..labels /\ Governs(Current)
    <3>1. dropped < labels /\ Governs(Current) /\ Current \in 1..labels
      BY WalkNumbers DEF WalkInv
    <3> QED
      BY <3>1 DEF WalkInv, DmarcTypeOK, Governs, CheckDMARCRecord
  <2>2. /\ r.found /\ r.policy \in Policy \cup {"unknown"} /\ r.valid \in BOOLEAN
        /\ r.sp \in Policy \cup {Absent} /\ r.np \in Policy \cup {Absent}
        /\ r.pct = Absent \/ r.pct \in 0..100
    BY <2>1 DEF ParseDMARC, ParsedPolicy, ValidateDMARC, SaysP, Tags
  <2>3. \A p : PolicyStrength(p) = Strength(p) /\ Strength(p) \in 0..2
    BY DEF PolicyStrength, Strength
  <2>4. SubdomainAdvice(r) = "weaker" <=> InheritScore(r.sp, r.policy) < 0
    BY <2>3 DEF SubdomainAdvice, InheritScore
  <2>5. NonexistentAdvice(r) = "weaker" <=> InheritScore(r.np, sub) < 0
    BY <2>3 DEF NonexistentAdvice, InheritScore, NotDrawn
  <2>6. r.policy # "unknown" => AppliedInTest(r) = Downgraded(r.policy)
    BY <2>2 DEF AppliedInTest, Downgraded, Policy
  <2>7. r.valid =>
          LET points == CalculateDMARCScore(r)
              whole  == CalculateDMARCScore([r EXCEPT !.pct = Absent])
          IN  whole > 0 => (PercentageAdvice(r) = "full") = (points = whole)
    <3> DEFINE e      == [r EXCEPT !.pct = Absent]
               points == CalculateDMARCScore(r)
               whole  == CalculateDMARCScore(e)
    <3> SUFFICES ASSUME r.valid, whole > 0 PROVE (PercentageAdvice(r) = "full") = (points = whole)
      OBVIOUS
    <3>1. /\ e.found = r.found /\ e.valid = r.valid /\ e.policy = r.policy /\ e.sp = r.sp
          /\ e.np = r.np /\ e.strict = r.strict /\ e.test = r.test /\ e.pct = Absent
      BY <2>1 DEF ParseDMARC
    <3>2. points = IF r.pct = Absent THEN whole ELSE (whole * r.pct) \div 100
      BY <2>2, <3>1 DEF CalculateDMARCScore
    <3>3. whole \in 0..115
      <4> DEFINE t == [tags EXCEPT !.pct = Absent]
                 q == ParseDMARC(t)
      <4>1. t \in Tags
        BY <2>1 DEF Tags
      <4>2. /\ t.p = tags.p /\ t.sp = tags.sp /\ t.np = tags.np /\ t.t = tags.t /\ t.rua = tags.rua
            /\ t["aspf"] = tags["aspf"] /\ t["adkim"] = tags["adkim"] /\ t.pct = Absent
        BY <2>1 DEF Tags
      <4> HIDE DEF t
      <4>3. {a \in {"aspf", "adkim"} : t[a] = "s"} = {a \in {"aspf", "adkim"} : tags[a] = "s"}
        BY <4>2
      <4>4. ValidateDMARC(t) = ValidateDMARC(tags)
        BY <4>2 DEF ValidateDMARC, SaysP
      <4>5. /\ q.found = r.found /\ q.valid = r.valid /\ q.policy = r.policy /\ q.sp = r.sp
            /\ q.np = r.np /\ q.strict = r.strict /\ q.test = r.test /\ q.pct = Absent
        BY <2>1, <4>2, <4>3, <4>4 DEF ParseDMARC
      <4>6. CalculateDMARCScore(q) \in 0..115
        BY <4>1, DmarcScore, Zenon
      <4> HIDE DEF q, e, r
      <4>7. CalculateDMARCScore(e) = CalculateDMARCScore(q)
        BY <3>1, <4>5 DEF CalculateDMARCScore
      <4> QED
        BY <4>6, <4>7
    <3>4. PercentageAdvice(r) = "full" <=> r.pct = Absent \/ r.pct = 100
      <4> DEFINE p == r.pct
      <4>1. p = Absent \/ p \in 0..100
        BY <2>2
      <4>2. PercentageAdvice(r) =
              CASE p = Absent \/ p = 100 -> "full" [] p \in 50..99 -> "partial"
                [] p \in 1..49 -> "low" [] OTHER -> "anti-pattern"
        BY DEF PercentageAdvice
      <4>3. Absent \notin 50..99 /\ Absent \notin 1..49
        BY DmarcAssumption
      <4>4. CASE p = Absent \/ p = 100
        <5>1. p \notin 50..99 /\ p \notin 1..49
          BY <4>3, <4>4
        <5> QED
          BY <4>2, <4>4, <5>1
      <4>5. CASE p # Absent /\ p # 100
        <5>1. PercentageAdvice(r) # "full"
          BY <4>2, <4>5
        <5> QED
          BY <4>5, <5>1
      <4> QED
        BY <4>4, <4>5
    <3>5. r.pct # Absent => (points = whole <=> r.pct = 100)
      <4> DEFINE p == r.pct
      <4> SUFFICES ASSUME p # Absent PROVE points = whole <=> p = 100
        OBVIOUS
      <4>1. p \in 0..100 /\ points = (whole * p) \div 100
        BY <2>2, <3>2
      <4> HIDE DEF p, points, whole
      <4>2. p < 100 => whole * p < whole * 100
        BY <3>3, <4>1
      <4>3. p < 100 => (whole * p) \div 100 < whole
        BY <3>3, <4>1, <4>2
      <4> QED
        BY <3>3, <4>1, <4>3
    <3> HIDE DEF points, whole, r
    <3> QED
      BY <3>2, <3>4, <3>5
  <2>8. IsFallback(Current) => published[labels] = Absent
    <3>1. labels \in Walkable /\ Current <= labels /\ labels \in Nat /\ Current \in Nat
      BY <2>1, WalkNumbers DEF WalkInv, Walkable
    <3> QED
      BY <3>1 DEF WalkInv, IsFallback
  <2>9. IsPsdFallback(Current) => published[Current].psd = "y"
    BY <2>1 DEF IsPsdFallback, Governs
  <2>10. DmarcIcon(r) = "danger" => CalculateDMARCScore(r) = 20
    BY <2>2 DEF DmarcIcon, CalculateDMARCScore, NotDrawn
  <2> HIDE DEF r
  <2> QED
    BY <2>4, <2>5, <2>6, <2>7, <2>8, <2>9, <2>10 DEF DmarcCardAgrees, r
<1> QED
  BY <1>1, WalkInvariance, PTL

\* The verdicts of a usable record are those of its files and of DMARC.
Fetched(r, dmarc) ==
  \E logo \in LogoChecks(r.tags), vmc \in CertificateChecks(r.tags) :
    /\ r.checks = Checks(dmarc, r.tags, logo, vmc)
    /\ r.valid = \A n \in CheckName : r.checks[n] # "fail"

\* What the places visited held, when there is something to show of them or nothing.
Visitable == {"domain"} \cup IF bimiDNS.org THEN {"organization"} ELSE {}
CardInv ==
  /\ bimi.selector = "derived" => RecordValid(bimi)
  /\ Shown(bimi) /\ bimi.place # "domain" => RecordsAt("domain", "requested") = << >>
  /\ lookup = "done" /\ bimi.answer = "none" => Holding(Visitable) = {}
  /\ lookup = "done" =>
       IF RecordValid(bimi) THEN Fetched(bimi, CheckDMARCEnforcement(CheckDMARCRecord))
       ELSE bimi.checks = NoChecks

LEMMA SelectedCard ==
  ASSUME DiscoveryInv,
         NEW visited,
         \/ /\ visited = {"domain"}
            /\ RecordsAt("domain", "requested") # << >> \/ ~bimiDNS.org
         \/ /\ visited = {"domain", "organization"}
            /\ RecordsAt("domain", "requested") = << >> /\ bimiDNS.org,
         Select(visited)
  PROVE  /\ bimi'.selector = "requested"
         /\ Shown(bimi') /\ bimi'.place # "domain" => RecordsAt("domain", "requested") = << >>
         /\ bimi'.answer = "none" => Holding(visited) = {}
         /\ lookup' = "done" => ~RecordValid(bimi') /\ bimi'.checks = NoChecks
<1> DEFINE holder == FirstOf(Holding(visited))
           found  == RecordsAt(holder, "requested")
<1>1. /\ "domain" \in visited
      /\ Holding(visited) # {} => holder \in Place
      /\ FirstOf(Telling(visited)) \in Place
  BY NearestGoverns
<1>2. Holding(visited) # {} /\ holder # "domain" => RecordsAt("domain", "requested") = << >>
  BY <1>1 DEF Holding, FirstOf
<1>3. Holding(visited) = {} => RecordsAt("domain", "requested") = << >>
  BY <1>1 DEF Holding
<1>4. "requested" \in Selector /\ "domain" \in Place
  BY DEF Selector, Place
<1>5. \A a \in {"none", "several", "misplaced"}, p \in Place :
        NoneUsable(a, p).selector = "requested" /\ NoneUsable(a, p).place = p
  BY DEF NoneUsable
<1> HIDE DEF holder
<1>6. CASE Holding(visited) # {} /\ Len(found) = 1 /\ bimi' = Parsed(found[1], holder, "requested")
           /\ lookup' = AfterRecord(found[1])
  <2> DEFINE t == found[1]
  <2>1. t \in BimiTags
    BY <1>1, <1>4, <1>6, AtTyped DEF DiscoveryInv
  <2>2. t.ok \in BOOLEAN
    BY <2>1 DEF BimiTags
  <2>3. lookup' = "done" => ~t.ok
    BY <1>6, <2>2 DEF AfterRecord, Refines
  <2> HIDE DEF found, t
  <2>4. bimi' = Parsed(t, holder, "requested") /\ holder \in Place /\ Holding(visited) # {}
    BY <1>1, <1>6 DEF t
  <2>5. /\ RecordValid(bimi') <=> t.ok
        /\ bimi'.answer = "record" /\ bimi'.selector = "requested" /\ bimi'.place = holder
        /\ bimi'.checks = NoChecks
    BY <1>4, <2>1, <2>4, Constructed
  <2> QED
    BY <1>2, <2>3, <2>4, <2>5
<1>7. CASE Holding(visited) # {} /\ bimi' = NoneUsable("several", holder)
  <2>1. holder \in Place
    BY <1>1, <1>7
  <2> QED
    BY <1>2, <1>5, <1>7, <2>1, Constructed
<1>8. CASE Holding(visited) = {} /\ bimi' = NoneUsable("misplaced", FirstOf(Telling(visited)))
  BY <1>1, <1>3, <1>5, <1>8, Constructed
<1>9. CASE Holding(visited) = {} /\ bimi' = NoIndicator
  BY <1>3, <1>4, <1>5, <1>9, Constructed DEF NoIndicator
<1> QED
  BY <1>6, <1>7, <1>8, <1>9 DEF Select, holder

\* One query, or the fetching of the files.
LEMMA CardStep ==
  ASSUME DiscoveryInv, CardInv, UNCHANGED dmarcVars,
         CheckBIMI(CheckDMARCEnforcement(CheckDMARCRecord))
  PROVE  CardInv'
<1> DEFINE dmarc == CheckDMARCEnforcement(CheckDMARCRecord)
<1>1. dmarc' = dmarc
  <2>1. CheckDMARCRecord' = CheckDMARCRecord /\ Current' = Current /\ labels' = labels
    BY DEF dmarcVars, CheckDMARCRecord, Current
  <2> QED
    BY <2>1 DEF CheckDMARCEnforcement, Enforced, Applicable
<1> HIDE DEF dmarc
<1>2. ASSUME UNCHANGED bimiDNS
      PROVE  /\ \A p, s : RecordsAt(p, s)' = RecordsAt(p, s)
             /\ Visitable' = Visitable
             /\ \A v : Holding(v)' = Holding(v)
  BY <1>2 DEF RecordsAt, Visitable, Holding
<1>3. ASSUME UNCHANGED bimiDNS, bimi'.selector # "derived", NEW visited, visited = Visitable,
             Shown(bimi') /\ bimi'.place # "domain" => RecordsAt("domain", "requested") = << >>,
             bimi'.answer = "none" => Holding(visited) = {},
             lookup' = "done" => ~RecordValid(bimi') /\ bimi'.checks = NoChecks
      PROVE  CardInv'
  <2>1. /\ RecordsAt("domain", "requested")' = RecordsAt("domain", "requested")
        /\ Holding(Visitable)' = Holding(visited)
    <3>1. Visitable' = visited
      BY <1>2, <1>3
    <3>2. Holding(visited)' = Holding(visited)
      BY <1>2, <1>3
    <3>3. Holding(Visitable)' = Holding(visited)
      BY <3>1, <3>2 DEF Holding
    <3> QED
      BY <1>2, <1>3, <3>3
  <2>2. RecordValid(bimi)' <=> RecordValid(bimi')
    BY DEF RecordValid
  <2> QED
    BY <1>3, <2>1, <2>2 DEF CardInv, Shown
<1>4. CASE QueryUnanswered
  <2>1. UNCHANGED bimiDNS /\ lookup' = "done" /\ bimi' = NoneUsable("failed", "domain")
    BY <1>4 DEF QueryUnanswered
  <2>2. /\ bimi'.selector = "requested" /\ bimi'.answer = "failed" /\ bimi'.checks = NoChecks
        /\ ~RecordValid(bimi')
    BY <2>1 DEF NoneUsable, RecordValid
  <2> QED
    BY <1>3, <2>1, <2>2 DEF Shown
<1>5. CASE LookupAtDomain /\ ~QueryUnanswered
  <2>1. CASE /\ RecordsAt("domain", "requested") = << >> /\ bimiDNS.org
             /\ lookup' = "organization"
             /\ UNCHANGED <<bimiDNS, bimi>>
    <3>1. RecordsAt("domain", "requested")' = RecordsAt("domain", "requested")
      BY <1>2, <2>1
    <3> QED
      BY <2>1, <3>1 DEF CardInv, RecordValid, Shown
  <2>2. CASE (RecordsAt("domain", "requested") # << >> \/ ~bimiDNS.org) /\ Select({"domain"})
    <3>1. /\ bimi'.selector = "requested"
          /\ Shown(bimi') /\ bimi'.place # "domain" => RecordsAt("domain", "requested") = << >>
          /\ bimi'.answer = "none" => Holding({"domain"}) = {}
          /\ lookup' = "done" => ~RecordValid(bimi') /\ bimi'.checks = NoChecks
      BY <2>2, SelectedCard
    <3>2. UNCHANGED bimiDNS
      BY <2>2 DEF Select
    <3>3. bimi'.answer = "none" => Visitable = {"domain"}
      BY <2>2, <3>1 DEF Holding, Visitable
    <3>4. bimi'.answer = "none" => Holding(Visitable) = {}
      BY <3>1, <3>3
    <3> QED
      BY <1>3, <3>1, <3>2, <3>4
  <2> QED
    BY <1>5, <2>1, <2>2 DEF LookupAtDomain
<1>6. CASE LookupAtOrganization /\ ~QueryUnanswered
  <2>1. RecordsAt("domain", "requested") = << >> /\ bimiDNS.org /\ Select({"domain", "organization"})
    BY <1>6 DEF LookupAtOrganization, DiscoveryInv
  <2>2. /\ bimi'.selector = "requested"
        /\ Shown(bimi') /\ bimi'.place # "domain" => RecordsAt("domain", "requested") = << >>
        /\ bimi'.answer = "none" => Holding({"domain", "organization"}) = {}
        /\ lookup' = "done" => ~RecordValid(bimi') /\ bimi'.checks = NoChecks
    BY <2>1, SelectedCard
  <2>3. UNCHANGED bimiDNS /\ Visitable = {"domain", "organization"}
    BY <2>1 DEF Select, Visitable
  <2> QED
    BY <1>3, <2>2, <2>3
<1>7. CASE ApplyLocalPartSelector
  <2>1. UNCHANGED bimiDNS /\ lookup' = "assets" /\ RecordValid(bimi) /\ bimi \in BimiRecord
    BY <1>7 DEF ApplyLocalPartSelector, DiscoveryInv, BimiTypeOK
  <2>2. RecordsAt("domain", "requested")' = RecordsAt("domain", "requested")
    BY <1>2, <2>1
  <2>3. RecordValid(bimi') /\ bimi'.place = bimi.place
    <3>1. CASE bimi' = bimi
      BY <2>1, <3>1
    <3>2. CASE LET found == RecordsAt(bimi.place, "derived") IN
               Len(found) = 1 /\ found[1].ok /\ bimi' = Parsed(found[1], bimi.place, "derived")
      <4> DEFINE t == RecordsAt(bimi.place, "derived")[1]
      <4>1. bimi.place \in Place /\ "derived" \in Selector
        BY <2>1 DEF BimiRecord, Selector
      <4>2. t \in BimiTags /\ t.ok
        BY <3>2, <4>1, AtTyped DEF DiscoveryInv
      <4>3. bimi' = Parsed(t, bimi.place, "derived")
        BY <3>2
      <4> HIDE DEF t
      <4> QED
        BY <4>1, <4>2, <4>3, Constructed
    <3> QED
      BY <1>7, <3>1, <3>2 DEF ApplyLocalPartSelector
  <2>4. Shown(bimi)
    BY <2>1 DEF Shown, RecordValid
  <2> QED
    BY <2>1, <2>2, <2>3, <2>4 DEF CardInv, RecordValid
<1>8. CASE ValidateAssets(dmarc)
  <2>1. UNCHANGED bimiDNS /\ lookup' = "done" /\ RecordValid(bimi) /\ bimi \in BimiRecord
    BY <1>8 DEF ValidateAssets, DiscoveryInv, BimiTypeOK
  <2>2. PICK logo \in LogoChecks(bimi.tags), vmc \in CertificateChecks(bimi.tags) :
          bimi' = [bimi EXCEPT !.checks = Checks(dmarc, bimi.tags, logo, vmc),
                               !.valid  = \A n \in CheckName :
                                            Checks(dmarc, bimi.tags, logo, vmc)[n] # "fail"]
    BY <1>8 DEF ValidateAssets
  <2> DEFINE checks == Checks(dmarc, bimi.tags, logo, vmc)
             passed == \A n \in CheckName : checks[n] # "fail"
  <2>3. bimi' = [bimi EXCEPT !.checks = checks, !.valid = passed]
    BY <2>2
  <2>4. /\ bimi'.checks = checks /\ bimi'.valid = passed /\ bimi'.tags = bimi.tags
        /\ bimi'.answer = bimi.answer /\ bimi'.place = bimi.place /\ bimi'.selector = bimi.selector
    <3> HIDE DEF checks, passed
    <3> QED
      BY <2>1, <2>3 DEF BimiRecord
  <2>5. RecordValid(bimi') /\ bimi'.answer = "record" /\ Shown(bimi)
    BY <2>1, <2>4 DEF RecordValid, Shown
  <2>6. Fetched(bimi', dmarc)
    <3>1. logo \in LogoChecks(bimi'.tags) /\ vmc \in CertificateChecks(bimi'.tags)
      BY <2>2, <2>4
    <3>2. bimi'.checks = Checks(dmarc, bimi'.tags, logo, vmc)
      BY <2>4
    <3>3. bimi'.valid = \A n \in CheckName : bimi'.checks[n] # "fail"
      BY <2>4
    <3> QED
      BY <3>1, <3>2, <3>3, Zenon DEF Fetched
  <2>7. Fetched(bimi, dmarc)'
    BY <1>1, <2>6 DEF Fetched
  <2>8. RecordsAt("domain", "requested")' = RecordsAt("domain", "requested")
    BY <1>2, <2>1
  <2> QED
    BY <2>1, <2>4, <2>5, <2>7, <2>8 DEF CardInv, Shown, RecordValid, dmarc
<1> QED
  BY <1>4, <1>5, <1>6, <1>7, <1>8 DEF CheckBIMI, dmarc

\* Queries about other things leave the record, and DMARC is settled by then.
LEMMA CardInvStep ==
  ASSUME DiscoveryInv, EnforcedInv, CardInv, [Next]_vars
  PROVE  CardInv'
<1>1. CASE CheckBIMIRecord
  BY <1>1, CardStep DEF CheckBIMIRecord
<1>2. ASSUME UNCHANGED bimiVars, lookup = "domain" \/ UNCHANGED dmarcVars PROVE CardInv'
  <2>1. /\ RecordsAt("domain", "requested")' = RecordsAt("domain", "requested")
        /\ Holding(Visitable)' = Holding(Visitable)
    BY <1>2 DEF bimiVars, RecordsAt, Holding, Visitable
  <2>2. bimi' = bimi /\ lookup' = lookup
    BY <1>2 DEF bimiVars
  <2>3. UNCHANGED dmarcVars =>
          CheckDMARCEnforcement(CheckDMARCRecord)' = CheckDMARCEnforcement(CheckDMARCRecord)
    <3> SUFFICES ASSUME UNCHANGED dmarcVars
                 PROVE  CheckDMARCEnforcement(CheckDMARCRecord)' = CheckDMARCEnforcement(CheckDMARCRecord)
      OBVIOUS
    <3>1. CheckDMARCRecord' = CheckDMARCRecord /\ Current' = Current /\ labels' = labels
      BY DEF dmarcVars, CheckDMARCRecord, Current
    <3> QED
      BY <3>1 DEF CheckDMARCEnforcement, Enforced, Applicable
  <2>4. UNCHANGED dmarcVars => (Fetched(bimi, CheckDMARCEnforcement(CheckDMARCRecord))'
                                  <=> Fetched(bimi, CheckDMARCEnforcement(CheckDMARCRecord)))
    BY <2>2, <2>3 DEF Fetched
  <2> QED
    BY <1>2, <2>1, <2>2, <2>4 DEF CardInv, Shown, RecordValid
<1>3. CASE CheckMXRecords \/ CheckSPFRecords \/ CheckReturnOK \/ CheckDMARC
  BY <1>2, <1>3 DEF CheckMXRecords, CheckSPFRecords, CheckReturnOK, CheckDMARC, EnforcedInv
<1>4. CASE CalculateDomainOnlyScore
  BY <1>2, <1>4 DEF CalculateDomainOnlyScore
<1>5. CASE UNCHANGED vars
  BY <1>2, <1>5 DEF vars
<1> QED
  BY <1>1, <1>3, <1>4, <1>5 DEF Next

\* What the page says of a usable record follows from its files.
LEMMA Verdicts ==
  ASSUME BimiTypeOK, RecordValid(bimi), Fetched(bimi, CheckDMARCEnforcement(CheckDMARCRecord))
  PROVE  /\ DmarcBlockers(bimi) <=> ~Enforced(CheckDMARCRecord)
         /\ bimi.valid => Enforced(CheckDMARCRecord)
         /\ Headline(bimi) = "pass" => bimi.tags.a = bimi.tags.l
<1> DEFINE dmarc == CheckDMARCEnforcement(CheckDMARCRecord)
<1>0. dmarc = "fail" <=> ~Enforced(CheckDMARCRecord)
  BY DEF CheckDMARCEnforcement
<1> HIDE DEF dmarc
<1>1. PICK logo \in LogoChecks(bimi.tags), vmc \in CertificateChecks(bimi.tags) :
        /\ bimi.checks = Checks(dmarc, bimi.tags, logo, vmc)
        /\ bimi.valid = \A n \in CheckName : bimi.checks[n] # "fail"
  BY DEF Fetched, dmarc
<1>2. bimi.tags.l \in BOOLEAN /\ bimi.tags.a \in BOOLEAN
  BY DEF BimiTypeOK, BimiRecord, BimiTags
<1>3. /\ bimi.checks["dmarc_enforcement"] = dmarc
      /\ bimi.checks["logo_fetch"] = logo[1]
      /\ bimi.checks["vmc"] = vmc
      /\ {"dmarc_enforcement", "logo_fetch", "vmc"} \subseteq CheckName
  BY <1>1 DEF Checks, CheckName
<1>4. bimi.valid => dmarc # "fail" /\ logo[1] # "fail"
  BY <1>1, <1>3
<1>5. ~bimi.tags.l /\ bimi.tags.a => logo[1] = "fail"
  BY <1>1, <1>2 DEF LogoChecks
<1>6. bimi.tags.l /\ ~bimi.tags.a => vmc = "warning"
  BY <1>1, <1>2 DEF CertificateChecks
<1>7. Headline(bimi) = "pass" => bimi.valid /\ vmc # "warning"
  BY <1>3 DEF Headline
<1> QED
  BY <1>0, <1>2, <1>3, <1>4, <1>5, <1>6, <1>7 DEF DmarcBlockers

\* What the BIMI card says is true of the publication, the record and DMARC.
THEOREM BimiCard == Spec => []BimiCardAgrees
<1>1. Init => CardInv
  BY DEF Init, BimiInit, CardInv, NoIndicator, NoneUsable, Shown
<1>2. DiscoveryInv /\ CardInv => BimiCardAgrees
  <2> SUFFICES ASSUME DiscoveryInv, CardInv, lookup = "done" PROVE BimiCardAgrees
    BY DEF BimiCardAgrees
  <2> DEFINE r == CheckDMARCRecord
  <2>0. BimiTypeOK /\ RecordIsGoverning /\ bimi \in BimiRecord
    BY DEF DiscoveryInv, BimiTypeOK
  <2>1. RecordValid(bimi) => Fetched(bimi, CheckDMARCEnforcement(r))
    BY DEF CardInv
  <2>2. ~RecordValid(bimi) => ~DmarcBlockers(bimi)
    <3>1. NoChecks["dmarc_enforcement"] = "skipped"
      BY DEF NoChecks, CheckName
    <3> QED
      BY <3>1 DEF CardInv, DmarcBlockers
  <2>3. Headline(bimi) # "fail" => RecordValid(bimi) /\ bimi.valid
    BY DEF Headline
  <2>4. Headline(bimi) # "fail" => Enforced(r) /\ Usable(Governing, "requested")
    BY <2>0, <2>1, <2>3, Verdicts DEF RecordIsGoverning
  <2>5. DmarcBlockers(bimi) <=> RecordValid(bimi) /\ ~Enforced(r)
    BY <2>0, <2>1, <2>2, Verdicts
  <2>6. Headline(bimi) = "pass" => bimi.tags.a = bimi.tags.l
    <3>1. Headline(bimi) = "pass" => RecordValid(bimi)
      BY <2>3
    <3> QED
      BY <2>0, <2>1, <3>1, Verdicts
  <2>7. InheritedFrom(bimi) => RecordsAt("domain", "requested") = << >>
    BY DEF CardInv, InheritedFrom
  <2>8. DerivedFromLocalPart(bimi) => RecordsAt(Governing, "requested")[1].lps \in {"every", "listed"}
    <3>1. DerivedFromLocalPart(bimi) => bimi.selector = "derived" /\ RecordValid(bimi)
      BY <2>0 DEF CardInv, DerivedFromLocalPart, BimiRecord, Selector
    <3> QED
      BY <2>0, <3>1 DEF RecordIsGoverning, Refines
  <2>9. bimi.answer = "none" => Holding({"domain"} \cup IF bimiDNS.org THEN {"organization"} ELSE {}) = {}
    BY DEF CardInv, Visitable
  <2>10. DmarcBlockers(bimi) = (RecordValid(bimi) /\ ~Enforced(r))
    BY <2>5 DEF DmarcBlockers
  <2> HIDE DEF r
  <2> QED
    BY <2>0, <2>4, <2>6, <2>7, <2>8, <2>9, <2>10 DEF BimiCardAgrees, r
<1>3. Init => EnforcedInv
  BY DEF Init, BimiInit, EnforcedInv
<1> QED
  BY <1>1, <1>2, <1>3, CardInvStep, EnforcedStep, DiscoveryInvariance, PTL DEF Spec

=============================================================================

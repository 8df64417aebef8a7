--------------------------- MODULE DmarcDiscovery ---------------------------
(***************************************************************************)
(* pkg/analyzer/dns_dmarc.go: the DMARC record that governs a domain, and  *)
(* what it is worth.                                                       *)
(*                                                                         *)
(* The DNS Tree Walk asks for _dmarc.<suffix>, dropping labels from the    *)
(* left.  A suffix of the domain is named here by its number of labels; a  *)
(* long domain is asked in full and then from its seven last labels on.    *)
(***************************************************************************)
EXTENDS Integers

CONSTANTS
  MaxLabels,    \* longest domain considered
  Absent        \* a tag, or a record, that is not there

\* Mutant: the budget is one short.
SevenQueries == 7
MaxQueries == 8

Policy == {"none", "quarantine", "reject"}
Tags ==
  [p   : Policy \cup {"other", Absent},   \* "other": a value that is no policy
   sp  : Policy \cup {"other", Absent},
   np  : Policy \cup {"other", Absent},
   aspf : {"s", "r"}, adkim : {"s", "r"},
   t   : {"y", "n", Absent},
   pct : 0..100 \cup {Absent},            \* a value out of range is dropped
   psd : {"y", "n", "u", Absent},
   rua : BOOLEAN]

ASSUME DmarcAssumption ==
  /\ MaxLabels \in Nat \ {0}
  /\ Absent \notin Policy \cup {"other", "y", "n", "u"}
  /\ Absent \notin 0..100
  /\ Absent \notin Tags

VARIABLES
  labels,     \* n: the labels of the domain
  published,  \* published[k]: the record at _dmarc.<the last k labels>
  dropped,    \* i: labels left out of the current suffix
  queries,
  walk        \* how the walk stands or ended

dmarcVars == <<labels, published, dropped, queries, walk>>

DmarcTypeOK ==
  /\ labels \in 1..MaxLabels
  /\ published \in [1..labels -> Tags \cup {Absent}]
  /\ dropped \in 0..labels
  /\ queries \in 0..MaxQueries
  /\ walk \in {"walking", "found", "not found", "failed"}

\* Domains and what they publish: pairs of a number of labels and a function.
DmarcInit(domains) ==
  /\ \E d \in domains : labels = d.labels /\ published = d.published
  /\ dropped = 0
  /\ queries = 0
  /\ walk = "walking"

Current == labels - dropped

Querying == walk = "walking" /\ dropped < labels /\ queries < MaxQueries

\* An error that is not "no such name" ends the walk.
QueryFails ==
  /\ Querying
  /\ walk' = "failed"
  /\ UNCHANGED <<labels, published, dropped, queries>>

\* A record of a top-level domain counts only if it says psd=y.
QueryFinds ==
  /\ Querying
  /\ published[Current] # Absent
  /\ walk' = IF Current = 1 /\ published[Current].psd # "y" THEN "not found" ELSE "found"
  /\ UNCHANGED <<labels, published, dropped, queries>>

\* Mutant: the shortcut lands one label too far.
SkipsTheSeventhLabel ==
  /\ Querying
  /\ published[Current] = Absent
  /\ dropped' = IF dropped = 0 /\ labels >= 8 THEN labels - 6 ELSE dropped + 1
  /\ queries' = queries + 1
  /\ UNCHANGED <<labels, published, walk>>

QueryMisses ==
  /\ Querying
  /\ published[Current] = Absent
  /\ dropped' = IF dropped = 0 /\ labels >= 8 THEN labels - 7 ELSE dropped + 1
  /\ queries' = queries + 1
  /\ UNCHANGED <<labels, published, walk>>

\* Mutant: only the budget ends the loop.
OutOfBudget ==
  /\ walk = "walking"
  /\ queries >= MaxQueries
  /\ walk' = "not found"
  /\ UNCHANGED <<labels, published, dropped, queries>>

Exhausted ==
  /\ walk = "walking"
  /\ dropped >= labels \/ queries >= MaxQueries
  /\ walk' = "not found"
  /\ UNCHANGED <<labels, published, dropped, queries>>

WalkDNS == QueryFails \/ QueryFinds \/ QueryMisses \/ Exhausted

-----------------------------------------------------------------------------
(* The record that was found                                               *)

\* strings.Contains(record, "p="): sp= and np= contain it, too.
SaysP(tags) == tags.p # Absent \/ tags.sp # Absent \/ tags.np # Absent
ValidateDMARC(tags) == SaysP(tags) \/ tags.rua

ParsedPolicy(tag) == IF tag \in Policy THEN tag ELSE "unknown"

NoPolicy == [valid |-> FALSE, found |-> FALSE]
ParseDMARC(tags) ==
  [valid  |-> ValidateDMARC(tags),
   found  |-> TRUE,
   policy |-> ParsedPolicy(tags.p),
   sp     |-> IF tags.sp \in Policy THEN tags.sp ELSE Absent,
   np     |-> IF tags.np \in Policy THEN tags.np ELSE Absent,
   strict |-> {a \in {"aspf", "adkim"} : tags[a] = "s"},
   test   |-> tags.t = "y",
   pct    |-> tags.pct]

CheckDMARCRecord == IF walk = "found" THEN ParseDMARC(published[Current]) ELSE NoPolicy

Strength(policy) ==
  CASE policy = "reject" -> 2 [] policy = "quarantine" -> 1 [] OTHER -> 0

Downgraded(policy) ==
  CASE policy = "reject" -> "quarantine" [] policy = "quarantine" -> "none" [] OTHER -> policy

StrengthScore(policy) ==
  CASE policy = "reject" -> 25 [] policy = "none" -> 0 - 25 [] OTHER -> 0

\* A policy of its own for subdomains is worth it unless it is weaker.
InheritScore(policy, parent) ==
  IF policy = Absent \/ Strength(policy) >= Strength(parent) THEN 15 ELSE 0 - 15

CalculateDMARCScore(r) ==
  LET effective == IF r.test THEN Downgraded(r.policy) ELSE r.policy
      sub       == IF r.sp = Absent THEN effective ELSE r.sp
      bonus(a)  == IF a \in r.strict THEN 5 ELSE 0
      full      == 50 + StrengthScore(effective) + bonus("aspf") + bonus("adkim")
                      + InheritScore(r.sp, effective) + InheritScore(r.np, sub)
  IN IF ~r.found THEN 0
     ELSE IF ~r.valid THEN 20
     ELSE IF r.pct = Absent THEN full
     ELSE (full * r.pct) \div 100

-----------------------------------------------------------------------------
\* The suffixes a walk may ask for: the domain, and its last seven labels.
Walkable == {labels} \cup {k \in 1..7 : k <= labels}

\* Acceptable where it stands: anywhere but at a top-level domain, or with psd=y.
Governs(k) == published[k] # Absent /\ (k > 1 \/ published[k].psd = "y")

\* dns_dmarc.go:161-183: the record found is the one nearest to the domain, the
\* shortcut of long domains and the query budget notwithstanding.
NearestRecord ==
  walk = "found" =>
    /\ Current \in Walkable /\ Governs(Current)
    /\ \A k \in Walkable : k > Current => published[k] = Absent

\* dns_dmarc.go:161-185: a walk that ends without a record and without an error
\* has missed none; in particular the budget of eight queries never cuts a walk
\* short of the top-level domain.
NothingMissed ==
  walk = "not found" => \A k \in Walkable : ~Governs(k)
=============================================================================

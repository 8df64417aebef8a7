----------------------------- MODULE SpfResolver -----------------------------
(***************************************************************************)
(* pkg/analyzer/dns_spf.go: the SPF policy of a domain, with the records   *)
(* its redirect= modifier or its include: mechanisms lead to.              *)
(*                                                                         *)
(* resolveSPFRecords calls itself before it returns what it appended, so   *)
(* the calls still to make form a stack and the records come in the order  *)
(* of a depth-first traversal.  Who publishes which record decides where   *)
(* the traversal goes: records may name each other in a circle, name the   *)
(* same domain twice, or form a chain longer than the depth limit.         *)
(***************************************************************************)
EXTENDS Naturals, Sequences, SequencesExt

CONSTANTS
  Domains,
  MaxDepth,   \* deepest call that still asks the resolver (10 in the code)
  None        \* nil

\* The TXT answer of a domain, as far as SPF reads it.  With several SPF
\* records the last one is looked at.  An empty redirect is "redirect=" with
\* nothing behind it.
Qualifier == {"+", "-", "~", "?"}
Answer ==
  [count    : Nat,                          \* records that start with v=spf1
   wrong    : BOOLEAN,                      \* a token that is no mechanism
   all      : Qualifier \cup {None},        \* the qualifier of a final "all"
   redirect : Domains \cup {None, "empty"},
   includes : Seq(Domains)]

ASSUME SpfAssumption ==
  /\ MaxDepth \in Nat
  /\ None \notin Domains \cup Qualifier \cup {"empty"}
  /\ "empty" \notin Domains

VARIABLES
  zone,       \* what every domain publishes; nothing changes it
  asked,      \* visited
  pending,    \* the calls of resolveSPFRecords still to make, next one first
  records     \* the records collected so far

spfVars == <<zone, asked, pending, records>>

Call == [domain : Domains, depth : Nat]
Error == {"none", "too deep", "lookup", "absent", "several", "invalid"}
Record ==
  [domain   : Domains,
   found    : BOOLEAN,                      \* Record is not nil
   redirect : BOOLEAN,                      \* its text contains "redirect="
   all      : Qualifier \cup {None},        \* AllQualifier
   error    : Error]

SpfTypeOK ==
  /\ zone \in [Domains -> Answer]
  /\ asked \subseteq Domains
  /\ pending \in Seq(Call)
  /\ records \in Seq(Record)

Missing(d, why) ==
  [domain |-> d, found |-> FALSE, redirect |-> FALSE, all |-> None, error |-> why]

Valid(r) == r.error = "none"

\* validateSPF: only the record of the domain in question must say what becomes
\* of everybody else, and a redirect says it.
ValidateSPF(a, depth) ==
  IF a.wrong \/ (a.redirect = None /\ depth = 0 /\ a.all = None) THEN "invalid" ELSE "none"

\* extractSPFAllQualifier runs on valid records only.
Single(d, a, depth) ==
  LET e == ValidateSPF(a, depth) IN
    [domain |-> d, found |-> TRUE, redirect |-> a.redirect # None,
     all |-> IF e = "none" THEN a.all ELSE None, error |-> e]

Several(d, a) ==
  [domain |-> d, found |-> TRUE, redirect |-> a.redirect # None, all |-> None,
   error |-> "several"]

\* Where a record leads: a redirect replaces the includes, an empty one does not.
\* Mutant: the includes are resolved before the redirect.
IncludesToo(a) == IF a.redirect \in Domains THEN Append(a.includes, a.redirect) ELSE a.includes
Targets(a) == IF a.redirect \in Domains THEN <<a.redirect>> ELSE a.includes
\* Mutant: the loop ends one include early.
CallsButLast(a, depth) ==
  [k \in 1..(Len(Targets(a)) - 1) |-> [domain |-> Targets(a)[k], depth |-> depth + 1]]
Calls(a, depth) ==
  [k \in DOMAIN Targets(a) |-> [domain |-> Targets(a)[k], depth |-> depth + 1]]

SpfInit(domain, zones) ==
  /\ zone \in zones
  /\ asked = {}
  /\ pending = <<[domain |-> domain, depth |-> 0]>>
  /\ records = << >>

Return(record) ==
  /\ pending' = Tail(pending)
  /\ records' = Append(records, record)
  /\ UNCHANGED zone

TooDeep(c) ==
  /\ c.depth > MaxDepth
  /\ Return(Missing(c.domain, "too deep"))
  /\ UNCHANGED asked

AskedBefore(c) ==
  /\ c.depth <= MaxDepth
  /\ c.domain \in asked
  /\ pending' = Tail(pending)
  /\ UNCHANGED <<zone, asked, records>>

Asks(c) ==
  /\ c.depth <= MaxDepth
  /\ c.domain \notin asked
  /\ asked' = asked \cup {c.domain}

\* No answer in time, or an error: for any domain, at any moment.
LookupFails(c) ==
  /\ Asks(c)
  /\ Return(Missing(c.domain, "lookup"))

NoRecord(c) ==
  /\ Asks(c)
  /\ zone[c.domain].count = 0
  /\ Return(Missing(c.domain, "absent"))

SeveralRecords(c) ==
  /\ Asks(c)
  /\ zone[c.domain].count > 1
  /\ Return(Several(c.domain, zone[c.domain]))

\* A malformed record is followed like a valid one.
OneRecord(c) ==
  /\ Asks(c)
  /\ zone[c.domain].count = 1
  /\ pending' = Calls(zone[c.domain], c.depth) \o Tail(pending)
  /\ records' = Append(records, Single(c.domain, zone[c.domain], c.depth))
  /\ UNCHANGED zone

ResolveSPFRecords ==
  /\ pending # << >>
  /\ LET c == Head(pending) IN
       TooDeep(c) \/ AskedBefore(c) \/ LookupFails(c) \/ NoRecord(c)
         \/ SeveralRecords(c) \/ OneRecord(c)

Resolved == pending = << >>

(* calculateSPFScore takes the first record that is no redirect for the main  *)
(* one, or the last record when redirects are all there is.                   *)
LeadingRedirects(rs) ==
  {k \in DOMAIN rs : \A j \in 1..k : rs[j].redirect}
MainIndex(rs) ==
  IF Len(rs) \in LeadingRedirects(rs) THEN Len(rs)
  ELSE CHOOSE k \in DOMAIN rs : k \notin LeadingRedirects(rs) /\ 1..(k - 1) \subseteq LeadingRedirects(rs)

AllScore(all, dmarcStrict) ==
  CASE all = "-"                        -> 25
    [] all = "~"                        -> IF dmarcStrict THEN 20 ELSE 0
    [] all \in {"+", "?"} /\ dmarcStrict -> 0
    [] OTHER                            -> 0 - 25

CalculateSPFScore(rs, dmarcStrict) ==
  LET main == rs[MainIndex(rs)] IN
  IF rs = << >> THEN 0
  ELSE IF Valid(main) THEN 75 + AllScore(main.all, dmarcStrict)
  ELSE IF main.found THEN 25
  ELSE 0

-----------------------------------------------------------------------------
Answered(r) == r.error # "too deep"
Followed(r) == r.error \in {"none", "invalid"}

\* dns_spf.go:57-60: whatever circle the records form, no domain is looked up
\* twice, and every lookup left exactly one record in the report.
AskedOnce ==
  /\ \A j, k \in DOMAIN records :
       Answered(records[j]) /\ Answered(records[k]) /\ records[j].domain = records[k].domain
         => j = k
  /\ asked = {records[k].domain : k \in {j \in DOMAIN records : Answered(records[j])}}

\* dns_spf.go:129-148: when the traversal ends, every domain that a followed
\* record names is in the report, looked up or refused for its depth.
NothingOverlooked ==
  Resolved =>
    \A k \in DOMAIN records : Followed(records[k]) =>
      \A d \in Range(Targets(zone[records[k].domain])) :
        \E j \in DOMAIN records : records[j].domain = d

\* No record without a reason: each but the first is named by an earlier one
\* that was followed.  So all of them are reached from the domain in question.
NamedByEarlier ==
  \A k \in DOMAIN records : k > 1 =>
    \E j \in 1..(k - 1) :
      /\ Followed(records[j])
      /\ records[k].domain \in Range(Targets(zone[records[j].domain]))

\* dns_spf.go:444-464 finds the record to score by its place in the list: it
\* is where the redirects lead, one target after the other.  (An empty
\* redirect is followed by includes; from there on the place tells nothing.)
ScoredWhereRedirectsLead ==
  \A k \in 1..Len(records) :
    LET r == records[k] IN
      r.redirect /\ Followed(r) /\ k < MainIndex(records)
          /\ (\A j \in 1..k : zone[records[j].domain].redirect # "empty")
        => records[k + 1].domain = zone[r.domain].redirect
=============================================================================

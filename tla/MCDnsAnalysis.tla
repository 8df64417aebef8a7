---------------------------- MODULE MCDnsAnalysis ----------------------------
EXTENDS DnsView

Unpublished == [count |-> 0, wrong |-> FALSE, all |-> None, redirect |-> None, includes |-> << >>]
Publishes(all, redirect, includes) ==
  [count |-> 1, wrong |-> FALSE, all |-> all, redirect |-> redirect, includes |-> includes]

\* Three domains whose records name each other in every way: the one in question
\* with all kinds of records, the others with the kinds that lead somewhere.
Three == {"d0", "d1", "d2"}
Lists == {<< >>, <<"d0", "d1">>, <<"d1", "d2">>, <<"d2", "d1">>}
MainAnswers ==
  {Publishes(all, None, includes) : all \in {"-", None}, includes \in Lists}
    \cup {Publishes(None, redirect, includes) :
            redirect \in {"d0", "d1", "empty"}, includes \in {<< >>, <<"d2">>, <<"d1", "d2">>}}
    \cup {[Publishes("-", None, <<"d1">>) EXCEPT !.wrong = TRUE],
          [Publishes("-", None, <<"d1">>) EXCEPT !.count = 2], Unpublished}
OtherAnswers ==
  {Publishes(None, None, <<"d0", "d2">>), Publishes(None, "d0", << >>), Publishes("-", "d2", << >>),
   Publishes("-", None, << >>),
   [Publishes("-", "d2", << >>) EXCEPT !.count = 2], Unpublished}

Zone(given) == [d \in Domains |-> IF d \in DOMAIN given THEN given[d] ELSE Unpublished]
ThreeDomains ==
  {Zone([d \in Three |-> IF d = "d0" THEN a0 ELSE IF d = "d1" THEN a1 ELSE a2]) :
     a0 \in MainAnswers, a1 \in OtherAnswers, a2 \in OtherAnswers}

\* Twelve domains in a row, each including (or redirecting to) the next, the last
\* one the first: the twelfth is too deep to be asked.
Row == <<"d0", "d1", "d2", "d3", "d4", "d5", "d6", "d7", "d8", "d9", "d10", "d11">>
MCDomains == Range(Row)
After(d) == CHOOSE e \in MCDomains : \E k \in 1..12 : Row[k] = d /\ Row[(k % 12) + 1] = e
Chains ==
  {Zone([d \in MCDomains |-> Publishes("-", None, <<After(d)>>)]),
   Zone([d \in MCDomains |-> Publishes(None, After(d), << >>)]),
   \* too deep by one way, reached early by another
   Zone([d \in MCDomains |-> Publishes("~", None, IF d = "d0" THEN <<"d1", "d10">> ELSE <<After(d)>>)])}

Endings == {Zone([d \in {"d0"} |-> Publishes(all, None, << >>)]) : all \in Qualifier}

\* DMARC: no record, or one or two, anywhere above domains short and long.
Plain(p) ==
  [p |-> p, sp |-> Absent, np |-> Absent, aspf |-> "r", adkim |-> "r", t |-> Absent,
   pct |-> Absent, psd |-> Absent, rua |-> TRUE]
At(n, f) == [labels |-> n, published |-> [k \in 1..n |-> IF k \in DOMAIN f THEN f[k] ELSE Absent]]
Found == {Plain("reject"), [Plain("none") EXCEPT !.psd = "y"]}
Trees ==
  {At(n, [k \in S |-> r]) : n \in {1, 2, 7, 9}, S \in {{}, {1}}, r \in Found}
    \cup UNION {{At(n, [k \in {i, j} |-> IF k = i THEN r ELSE Plain("quarantine")]) :
                   i \in 1..n, j \in {1, 2, n}, r \in Found} : n \in {3, 8, 10}}

\* Every combination of tags the score reads, on the domain or above it.
AllTags ==
  {[p |-> p, sp |-> sp, np |-> np, aspf |-> a, adkim |-> a, t |-> t, pct |-> pct,
    psd |-> "n", rua |-> TRUE] :
     p \in Policy \cup {Absent}, sp \in {"none", "reject", Absent}, np \in {"none", "quarantine", Absent},
     a \in {"s", "r"}, t \in {"y", Absent}, pct \in {Absent, 90}}
    \cup {[Plain(p) EXCEPT !.rua = FALSE] : p \in {"reject", "other", Absent}}
Governed == {At(3, [k \in {3} |-> r]) : r \in AllTags} \cup {At(3, [k \in {2} |-> r]) : r \in AllTags}

Quiet   == At(1, << >>)
Strict  == Zone([d \in {"d0"} |-> Publishes("-", None, << >>)])
Reject  == At(2, [k \in {2} |-> [Plain("reject") EXCEPT !.aspf = "s", !.adkim = "s"]])

\* BIMI: nothing anywhere; for a sender, one, two or no records of every kind at
\* each of the four names that may be asked.
Nothing == [other |-> FALSE, bimi |-> << >>]
Misplaced == [other |-> TRUE, bimi |-> << >>]
Tagged(lps, l, a) == [ok |-> TRUE, lps |-> lps, l |-> l, a |-> a, avp |-> "absent"]
Plainly == Tagged("absent", TRUE, TRUE)
Broken == [Tagged("every", TRUE, TRUE) EXCEPT !.ok = FALSE]
One(tags) == [other |-> FALSE, bimi |-> <<tags>>]
Files == {Tagged("absent", l, a) : l \in BOOLEAN, a \in BOOLEAN}
Requested ==
  {Nothing, Misplaced, One(Broken), [other |-> TRUE, bimi |-> <<Plainly, Plainly>>]}
    \cup {One(t) : t \in Files \cup {Tagged(lps, TRUE, FALSE) : lps \in {"listed", "unlisted"}}}
Derived ==
  {Nothing, One(Broken), One([Tagged("every", FALSE, FALSE) EXCEPT !.avp = "unknown"]),
   [other |-> FALSE, bimi |-> <<Plainly, Plainly>>]}
Published(here, above, derived) ==
  [p \in Place |-> [n \in Selector |-> IF n = "derived" THEN derived
                                       ELSE IF p = "domain" THEN here ELSE above]]
Publications ==
  {[org |-> TRUE, at |-> Published(here, above, derived), sender |-> "named"] :
     here \in Requested, above \in Requested, derived \in Derived}
   \cup {[org |-> TRUE, at |-> Published(here, Nothing, One(Plainly)), sender |-> "same"] :
     here \in Requested}
   \cup {[org |-> FALSE, at |-> Published(here, One(Plainly), derived), sender |-> "named"] :
     here \in Requested, derived \in Derived}
Silent == [org |-> TRUE, at |-> Published(Nothing, Nothing, Nothing), sender |-> "none"]
Declined ==
  [org |-> FALSE, at |-> Published(One(Tagged("absent", FALSE, FALSE)), Nothing, Nothing), sender |-> "none"]
Assets == [org |-> FALSE, at |-> Published(One(Plainly), Nothing, Nothing), sender |-> "none"]

Scored(zones, domains) ==
  {[request |-> "domain", spf |-> z, dmarc |-> d, bimi |-> Silent] : z \in zones, d \in domains}
Branded(domains, publications) ==
  {[request |-> "bimi", spf |-> Zone(<< >>), dmarc |-> d, bimi |-> p] : d \in domains, p \in publications}
MCScenarios ==
  Scored(ThreeDomains \cup Chains, {Quiet}) \cup Scored(Endings, {Reject})
    \cup Scored({Strict}, Trees) \cup Scored({Strict}, Governed)
    \cup {[s EXCEPT !.bimi = Assets] : s \in Scored({Strict}, {Quiet, Reject})}
    \cup Branded({Reject}, Publications) \cup Branded(Governed, {Declined})
==============================================================================

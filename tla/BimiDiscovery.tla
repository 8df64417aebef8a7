---------------------------- MODULE BimiDiscovery ----------------------------
(***************************************************************************)
(* pkg/bimi: which BIMI record applies to a sender, and whether it leads   *)
(* to a logo.                                                              *)
(*                                                                         *)
(* The record is looked for at the domain, then at its organizational      *)
(* domain; one with an lps= tag may send some senders on to a selector     *)
(* named after their address.  ValidateAssets then checks DMARC, the logo  *)
(* and the certificate.                                                    *)
(***************************************************************************)
EXTENDS Integers, Sequences

\* A record that starts with v=BIMI1.  ok: it parses; lps: the tag, as it applies
\* to the sender at hand; l, a: the tags name a logo, a certificate.
BimiTags ==
  [ok : BOOLEAN, lps : {"absent", "every", "listed", "unlisted"}, l : BOOLEAN, a : BOOLEAN,
   avp : {"absent", "known", "unknown"}]

\* bimiLocation: a name, with TXT records of other kinds and its BIMI records.
Location == [other : BOOLEAN, bimi : Seq(BimiTags)]
Place    == {"domain", "organization"}
Selector == {"requested", "derived"}

\* The senders NormalizeLocalPart tells apart: none given, one no selector can be
\* made of, one named like the selector asked for, and any other.
Sender == {"none", "unusable", "same", "named"}

\* What the DNS holds for a sender; org: the organizational domain is another one.
Publication == [org : BOOLEAN, at : [Place -> [Selector -> Location]], sender : Sender]

Status == {"pass", "warning", "fail", "skipped"}
CheckName == {"dmarc_enforcement", "record_tags", "logo_fetch", "logo_xml", "logo_svg_tiny_ps", "vmc"}

NoTags == [ok |-> FALSE, lps |-> "absent", l |-> FALSE, a |-> FALSE, avp |-> "absent"]
NoChecks == [n \in CheckName |-> "skipped"]

VARIABLES
  bimiDNS,    \* the publication; nothing changes it
  lookup,     \* what discovery asks for next
  bimi        \* the Record

bimiVars == <<bimiDNS, lookup, bimi>>

\* answer: "record" for one that carries the version tag, "misplaced" for any other.
BimiRecord ==
  [answer : {"none", "failed", "several", "misplaced", "record"}, place : Place,
   selector : Selector, tags : BimiTags, valid : BOOLEAN, checks : [CheckName -> Status]]

BimiTypeOK ==
  /\ bimiDNS \in Publication
  /\ lookup \in {"domain", "organization", "derived", "assets", "done"}
  /\ bimi \in BimiRecord

NoneUsable(answer, place) ==
  [answer |-> answer, place |-> place, selector |-> "requested", tags |-> NoTags,
   valid |-> FALSE, checks |-> NoChecks]
NoIndicator == NoneUsable("none", "domain")

BimiInit(publications) ==
  /\ bimiDNS \in publications
  /\ lookup = "domain"
  /\ bimi = NoIndicator

RecordsAt(place, selector) == bimiDNS.at[place][selector].bimi
RecordValid(r) == r.answer = "record" /\ r.tags.ok

\* ParseRecord
Parsed(tags, place, selector) ==
  [answer |-> "record", place |-> place, selector |-> selector, tags |-> tags,
   valid |-> tags.ok, checks |-> NoChecks]

\* applyLocalPartSelector, up to its own query.
Refines(tags) ==
  /\ bimiDNS.sender = "named"
  /\ tags.ok
  /\ tags.lps \in {"every", "listed"}

Holding(visited) == {p \in visited : RecordsAt(p, "requested") # << >>}
Telling(visited) == {p \in visited : bimiDNS.at[p]["requested"].other}
FirstOf(places) == IF "domain" \in places THEN "domain" ELSE "organization"

AfterRecord(tags) ==
  CASE Refines(tags) -> "derived" [] ~Refines(tags) /\ tags.ok -> "assets" [] OTHER -> "done"

\* The record of the nearest place visited that holds BIMI records, of which there
\* must be one; where none does, whatever else is published there.
Select(visited) ==
  LET holder == FirstOf(Holding(visited))
      found  == RecordsAt(holder, "requested")
  IN /\ \/ /\ Holding(visited) # {} /\ Len(found) = 1
           /\ bimi' = Parsed(found[1], holder, "requested")
           /\ lookup' = AfterRecord(found[1])
        \/ /\ Holding(visited) # {} /\ Len(found) > 1
           /\ bimi' = NoneUsable("several", holder)
           /\ lookup' = "done"
        \/ /\ Holding(visited) = {} /\ Telling(visited) # {}
           /\ bimi' = NoneUsable("misplaced", FirstOf(Telling(visited)))
           /\ lookup' = "done"
        \/ /\ Holding(visited) = {} /\ Telling(visited) = {}
           /\ bimi' = NoIndicator
           /\ lookup' = "done"
     /\ UNCHANGED bimiDNS

\* Mutant: a query that fails counts as one that found nothing.
FailedIsEmpty ==
  /\ lookup' = IF lookup = "domain" /\ bimiDNS.org THEN "organization" ELSE "done"
  /\ UNCHANGED <<bimiDNS, bimi>>

QueryUnanswered ==
  /\ lookup' = "done"
  /\ bimi' = NoneUsable("failed", "domain")
  /\ UNCHANGED bimiDNS

LookupAtDomain ==
  /\ lookup = "domain"
  /\ \/ QueryUnanswered
     \/ /\ RecordsAt("domain", "requested") = << >> /\ bimiDNS.org
        /\ lookup' = "organization"
        /\ UNCHANGED <<bimiDNS, bimi>>
     \/ /\ RecordsAt("domain", "requested") # << >> \/ ~bimiDNS.org
        /\ Select({"domain"})

LookupAtOrganization ==
  /\ lookup = "organization"
  /\ QueryUnanswered \/ Select({"domain", "organization"})

\* A refinement that fails, or finds anything but one usable record, leaves the
\* record there was.
ApplyLocalPartSelector ==
  /\ lookup = "derived"
  /\ \/ bimi' = bimi
     \/ LET found == RecordsAt(bimi.place, "derived") IN
        /\ Len(found) = 1 /\ found[1].ok
        /\ bimi' = Parsed(found[1], bimi.place, "derived")
  /\ lookup' = "assets"
  /\ UNCHANGED bimiDNS

\* The files behind l= and a=: a logo that is fetched, well-formed and of the
\* profile, a certificate that holds, each as far as it is asked.
LogoChecks(tags) ==
  CASE ~tags.l -> {<<IF tags.a THEN "fail" ELSE "skipped", "skipped", "skipped">>}
    [] OTHER -> {<<"fail", "skipped", "skipped">>}
                  \cup {"pass", "warning"} \X {"pass"} \X {"pass", "warning", "fail"}
                  \cup {"pass", "warning"} \X {"fail"} \X Status
CertificateChecks(tags) ==
  CASE tags.a -> {"pass", "warning", "fail"} [] OTHER -> {IF tags.l THEN "warning" ELSE "skipped"}

Checks(dmarc, tags, logo, vmc) ==
  [n \in CheckName |->
     CASE n = "dmarc_enforcement" -> dmarc
       [] n = "record_tags"       -> IF tags.avp = "unknown" THEN "warning" ELSE "pass"
       [] n = "logo_fetch"        -> logo[1]
       [] n = "logo_xml"          -> logo[2]
       [] n = "logo_svg_tiny_ps"  -> logo[3]
       [] OTHER                   -> vmc]

\* dmarc: the verdict of CheckDMARCEnforcement on the domain asked about.
ValidateAssets(dmarc) ==
  /\ lookup = "assets"
  /\ \E logo \in LogoChecks(bimi.tags), vmc \in CertificateChecks(bimi.tags) :
       LET checks == Checks(dmarc, bimi.tags, logo, vmc) IN
       bimi' = [bimi EXCEPT !.checks = checks, !.valid = \A n \in CheckName : checks[n] # "fail"]
  /\ lookup' = "done"
  /\ UNCHANGED bimiDNS

CheckBIMI(dmarc) ==
  LookupAtDomain \/ LookupAtOrganization \/ ApplyLocalPartSelector \/ ValidateAssets(dmarc)

-----------------------------------------------------------------------------
\* Whose record governs: the domain's own, and only without any its parent's.
Governing ==
  IF RecordsAt("domain", "requested") # << >> \/ ~bimiDNS.org THEN "domain" ELSE "organization"

\* Exactly one record stands where it must, and it parses.
Usable(place, selector) ==
  Len(RecordsAt(place, selector)) = 1 /\ RecordsAt(place, selector)[1].ok

\* lookup.go:113-162 with localpart.go:128-194: a record reported as usable is the
\* governing place's own, a failed query never hands a domain the record of its
\* parent, and a sender is sent on only by a usable record that names it; and
\* following lps= never costs the record there was, whatever the second query
\* meets.
RecordIsGoverning ==
  /\ RecordValid(bimi) =>
       /\ bimi.place = Governing /\ Usable(Governing, "requested")
       /\ bimi.tags = RecordsAt(Governing, bimi.selector)[1]
       /\ bimi.selector = "derived" =>
            Refines(RecordsAt(Governing, "requested")[1]) /\ Usable(Governing, "derived")
  /\ lookup = "done" /\ bimi.answer # "failed" /\ Usable(Governing, "requested") => RecordValid(bimi)
=============================================================================

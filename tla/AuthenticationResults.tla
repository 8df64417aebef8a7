------------------------ MODULE AuthenticationResults ------------------------
(***************************************************************************)
(* pkg/analyzer/authentication*.go: the verdicts on SPF, DKIM, DMARC, BIMI *)
(* and the rest, read from the Authentication-Results fields of a message, *)
(* topmost first, then from the legacy Received-SPF fields and from the    *)
(* ARC sets.  A message is full of fields that other servers wrote, or the *)
(* sender: only those of one authority count, and of those the topmost.    *)
(***************************************************************************)
EXTENDS Grades, Sequences, SequencesExt

CONSTANT Hosts    \* authserv-ids

\* The methods of which the first verdict is kept.
FirstOnly ==
  {"dmarc", "bimi", "iprev", "x-google-dkim", "x-aligned-from", "x-ptr", "x-tls", "arc"}
Result ==
  {"pass", "fail", "softfail", "neutral", "none", "temperror", "permerror", "declined"}
Identity == {"mailfrom", "helo"}

ASSUME AuthAssumption == None \notin Hosts \cup Result

Method ==
  [name     : FirstOnly \cup {"spf", "dkim"},
   result   : Result,
   identity : Identity \cup {None},     \* spf: which property it reports
   domain   : Relation \cup {None}]     \* dkim: header.d
\* An unreadable field has no authserv-id.
Field == [host : Hosts \cup {None}, methods : Seq(Method)]
ReceivedSPF ==
  [receiver : Hosts \cup {None}, result : Result,
   identity : Identity \cup {"pra", None},
   from     : BOOLEAN]                  \* envelope-from= or sender= is there
Verdict == [result : Result, identity : Identity \cup {None}]
DkimVerdict == [result : Result, domain : Relation \cup {None}]

VARIABLES
  fields,     \* Authentication-Results of the message, topmost first
  legacy,     \* its Received-SPF fields
  arcSets,    \* the i= of its ARC fields: [seal, signature, results : Seq(Nat)]
  authority,  \* the authserv-id that is trusted, None for any
  position,   \* the next field to read
  results     \* the verdicts so far

authVars == <<fields, legacy, arcSets, authority, position, results>>

NoVerdicts ==
  [spf |-> None, spfHelo |-> None, dkim |-> << >>, first |-> [m \in FirstOnly |-> None]]

Results ==
  [spf : Verdict \cup {None}, spfHelo : Verdict \cup {None}, dkim : Seq(DkimVerdict),
   first : [FirstOnly -> Result \cup {None}]]

AuthTypeOK ==
  /\ fields \in Seq(Field)
  /\ legacy \in Seq(ReceivedSPF)
  /\ authority \in Hosts \cup {None}
  /\ position \in 1..(Len(fields) + 1)
  /\ results \in Results

Readable(f) == f.host # None

\* A message we received is judged by our own fields (those of receiver, which
\* need not be configured), any other by those of the server that wrote the
\* topmost one.
AuthservIDs(fs) == [k \in {i \in DOMAIN fs : Readable(fs[i])} |-> fs[k].host]
Authority(receiver, source, fs) ==
  IF source = "received" THEN receiver ELSE Foremost(AuthservIDs(fs))

\* Mutant: every field counts.
AnyField(f) == Readable(f)
Trusted(f) == Readable(f) /\ authority \in {None, f.host}

Keep(old, new) == IF old # None THEN old ELSE new

OfHelo(m) == m.name = "spf" /\ m.identity = "helo"
OfSender(m) == m.name = "spf" /\ m.identity # "helo"
SpfVerdicts(f, places) ==
  [k \in places |-> [result |-> f.methods[k].result, identity |-> f.methods[k].identity]]

\* Within a field, the verdict that names smtp.mailfrom comes before the one
\* that names nothing.
HeaderSpf(f) ==
  LET any      == {k \in DOMAIN f.methods : OfSender(f.methods[k])}
      explicit == {k \in any : f.methods[k].identity = "mailfrom"}
  IN  Foremost(SpfVerdicts(f, IF explicit = {} THEN any ELSE explicit))
HeaderHelo(f) == Foremost(SpfVerdicts(f, {k \in DOMAIN f.methods : OfHelo(f.methods[k])}))

DkimResults(f) ==
  LET found[n \in 0..Len(f.methods)] ==
        IF n = 0 THEN << >>
        ELSE IF f.methods[n].name # "dkim" THEN found[n - 1]
        ELSE Append(found[n - 1], [result |-> f.methods[n].result, domain |-> f.methods[n].domain])
  IN  found[Len(f.methods)]

FirstResult(f, name) ==
  LET own == {k \in DOMAIN f.methods : f.methods[k].name = name} IN
    Foremost([k \in own |-> f.methods[k].result])

\* Mutant: an explicit verdict supersedes one without a property, whichever
\* field it is in.
ParseAcrossFields(f) ==
  LET explicit(v) == v # None /\ v.identity = "mailfrom" IN
  [spf     |-> IF explicit(HeaderSpf(f)) /\ ~explicit(results.spf) THEN HeaderSpf(f)
               ELSE Keep(results.spf, HeaderSpf(f)),
   spfHelo |-> Keep(results.spfHelo, HeaderHelo(f)),
   dkim    |-> results.dkim \o DkimResults(f),
   first   |-> [m \in FirstOnly |-> Keep(results.first[m], FirstResult(f, m))]]

ParseAuthenticationResultsHeader(f) ==
  [spf     |-> Keep(results.spf, HeaderSpf(f)),
   spfHelo |-> Keep(results.spfHelo, HeaderHelo(f)),
   dkim    |-> results.dkim \o DkimResults(f),
   first   |-> [m \in FirstOnly |-> Keep(results.first[m], FirstResult(f, m))]]

AuthInit(receiver, source, m) ==
  /\ fields = m.fields /\ legacy = m.legacy /\ arcSets = m.arcSets
  /\ authority = Authority(receiver, source, m.fields)
  /\ position = 1
  /\ results = NoVerdicts

ReadField ==
  /\ position <= Len(fields)
  /\ results' = IF Trusted(fields[position])
                THEN ParseAuthenticationResultsHeader(fields[position]) ELSE results
  /\ position' = position + 1
  /\ UNCHANGED <<fields, legacy, arcSets, authority>>

(* Received-SPF: a field without receiver= counts, and one about the address *)
(* in the message never does.                                                *)
Counts(l) ==
  /\ authority # None => l.receiver \in {None, authority}
  /\ l.identity # "pra"
LegacyVerdict(l) ==
  [result   |-> l.result,
   identity |-> IF l.identity # "helo" /\ l.from THEN "mailfrom" ELSE l.identity]
LegacyOf(identities) ==
  LET counted == {k \in DOMAIN legacy : Counts(legacy[k]) /\ legacy[k].identity \in identities} IN
    Foremost([k \in counted |-> LegacyVerdict(legacy[k])])

WithLegacySPF(r) ==
  IF r.spf # None THEN r
  ELSE [spf     |-> LegacyOf({"mailfrom", None}),
        spfHelo |-> Keep(r.spfHelo, LegacyOf({"helo"})),
        dkim    |-> r.dkim,
        first   |-> r.first]

(* ARC: a verdict of our own is kept; else the sets found are checked.  A 0 *)
(* stands for a field without i=.                                           *)
Instances(s) == SelectSeq(s, LAMBDA i : i # 0)
ValidateARCChain(a) ==
  /\ Len(a.seal) = Len(a.signature) /\ Len(a.seal) = Len(a.results)
  /\ \A s \in {a.signature, a.results} : Len(Instances(s)) = Len(Instances(a.seal))
  /\ \A i \in 1..Len(Instances(a.seal)), s \in {a.seal, a.signature, a.results} :
       i \in Range(Instances(s))
ParseARCHeaders(a) ==
  IF a.seal = << >> /\ a.signature = << >> /\ a.results = << >> THEN None
  ELSE IF a.seal = << >> THEN "none"
  ELSE IF ValidateARCChain(a) THEN "pass" ELSE "fail"

FinishAuthentication ==
  /\ position = Len(fields) + 1
  /\ results' = [WithLegacySPF(results) EXCEPT !.first["arc"] = Keep(@, ParseARCHeaders(arcSets))]
  /\ UNCHANGED <<fields, legacy, arcSets, authority, position>>

(* ReconcileXTLS: without an x-tls verdict, the topmost hop of a message we *)
(* received tells whether the connection was encrypted, when it says so.    *)
IndicatesTLS == {"ESMTPS", "LMTPS"}
ReconciledTLS(chain) ==
  IF chain = << >> THEN None
  ELSE IF chain[1].tls \/ chain[1].with \in IndicatesTLS THEN "pass"
  ELSE IF chain[1].with # None THEN "none"
  ELSE None
ReconcileXTLS(chain) ==
  /\ results' = [results EXCEPT !.first["x-tls"] = Keep(@, ReconciledTLS(chain))]
  /\ UNCHANGED <<fields, legacy, arcSets, authority, position>>

-----------------------------------------------------------------------------
(* CalculateAuthenticationScore                                            *)

CalculateSPFScore(r) ==
  CASE r.spf = None -> IF r.spfHelo # None THEN 50 ELSE 0
    [] r.spf # None -> CASE r.spf.result = "pass"                -> 100
                         [] r.spf.result \in {"neutral", "none"} -> 50
                         [] r.spf.result = "softfail"            -> 17
                         [] OTHER                                -> 0

CalculateSPFHeloScore(r) ==
  IF r.spfHelo = None THEN 0
  ELSE CASE r.spfHelo.result = "fail"     -> -100
         [] r.spfHelo.result = "softfail" -> -50
         [] OTHER                         -> 0

CalculateDKIMScore(r) ==
  LET passes == {k \in DOMAIN r.dkim : r.dkim[k].result = "pass"} IN
    CASE r.dkim = << >>          -> 0
      [] passes = DOMAIN r.dkim /\ passes # {} -> 100
      [] passes # DOMAIN r.dkim /\ passes # {} -> 90
      [] OTHER                   -> 20

CalculateDMARCScore(r) ==
  CASE r.first["dmarc"] = "pass" -> 100 [] r.first["dmarc"] = "none" -> 33 [] OTHER -> 0
CalculateBIMIScore(r) ==
  CASE r.first["bimi"] = "pass" -> 100 [] r.first["bimi"] = "declined" -> 59 [] OTHER -> 0

\* What the verdicts that only cost take away.
Penalties(r) ==
  Quo(5 * CalculateSPFHeloScore(r), 100)
    - (IF r.first["iprev"] \in {None, "pass"} THEN 0 ELSE 7)
    - (IF r.first["x-google-dkim"] \in {None, "pass"} THEN 0 ELSE 12)
    - (IF r.first["x-aligned-from"] = "fail" THEN 5 ELSE 0)
    - (IF r.first["x-tls"] \in {None, "pass"} THEN 0 ELSE 10)

AuthenticationPoints(r) ==
  (30 * CalculateSPFScore(r)) \div 100 + (30 * CalculateDKIMScore(r)) \div 100
    + (30 * CalculateDMARCScore(r)) \div 100 + (10 * CalculateBIMIScore(r)) \div 100
    + Penalties(r)

\* The bounds every score is kept within.
Within(s) == IF s > 100 THEN 100 ELSE IF s < 0 THEN 0 ELSE s
CalculateAuthenticationScore(r) == Within(AuthenticationPoints(r))

-----------------------------------------------------------------------------
\* authentication.go:90-95: of the fields the authority wrote, the topmost one
\* that gives a verdict decides it.  A field below was in the message already
\* when that server received it, and a field of anybody else never counts.
ClosestHopSpeaks ==
  LET Read == {k \in 1..(position - 1) :
                 fields[k].host # None /\ authority \in {None, fields[k].host}}
  IN  /\ \A k \in Read :
           /\ \A m \in FirstOnly :
                FirstResult(fields[k], m) # None =>
                  \/ results.first[m] = FirstResult(fields[k], m)
                  \/ \E j \in Read : j < k /\ FirstResult(fields[j], m) # None
           /\ HeaderSpf(fields[k]) # None =>
                \/ results.spf = HeaderSpf(fields[k])
                \/ \E j \in Read : j < k /\ HeaderSpf(fields[j]) # None
      /\ \A m \in FirstOnly \ {"arc", "x-tls"} :
           results.first[m] # None =>
             \E k \in Read : results.first[m] = FirstResult(fields[k], m)
      /\ results.spf # None =>
           \/ \E k \in Read : results.spf = HeaderSpf(fields[k])
           \/ results.spf = LegacyOf({"mailfrom", None})

\* No later field, Received-SPF, ARC set or hop takes back a verdict: what a
\* message carries further down cannot improve what was found.
VerdictIsFinal ==
  [][/\ results.spf # None => results'.spf = results.spf
     /\ results.spfHelo # None => results'.spfHelo = results.spfHelo
     /\ IsPrefix(results.dkim, results'.dkim)
     /\ \A m \in FirstOnly :
          results.first[m] # None => results'.first[m] = results.first[m]]_results

\* grade.go:35-50 with authentication.go:183-230: no other points make up for a
\* missing pass, and the ten of BIMI are needed too: an A takes all four.
GradeANeedsTheFour ==
  Of(CalculateAuthenticationScore(results)) = "A" =>
    /\ results.spf # None /\ results.spf.result = "pass"
    /\ \E k \in DOMAIN results.dkim : results.dkim[k].result = "pass"
    /\ results.first["dmarc"] = "pass"
    /\ results.first["bimi"] \in {"pass", "declined"}
=============================================================================

------------------------------ MODULE NodeServer ------------------------------
(***************************************************************************)
(* The Node server of the repository: an Express application that keeps    *)
(* tests, reports and raw emails in three Maps of one process.  No mail    *)
(* ever reaches it: a report is generated, always with the same verdicts,  *)
(* when a test has been pending long enough at the moment somebody asks    *)
(* for it.  Express runs one handler at a time, so each handler that       *)
(* touches the Maps is one action.                                         *)
(*                                                                         *)
(* A report is kept as far as it depends on the request: the test it is    *)
(* filed under, the sender it is about, the provenance it records and the  *)
(* upload whose header it repeats.                                         *)
(***************************************************************************)
EXTENDS Naturals, Sequences, SequencesExt

CONSTANTS
  Ids,        \* identifiers a client may name, the seeded ones included
  Seeds,      \* the tests the server starts with, as it stores them: the newest first
  Host,       \* the domain of HAPPYDELIVER_DOMAIN
  Files       \* uploads: records [from, domain], "none" where there is none, or EmptyFile

SeedSet == Range(Seeds)

\* An upload without content: the empty string, which JavaScript takes for false.
EmptyFile == [from |-> "", domain |-> ""]

\* "none" and "absent" stand for what is not there.
ASSUME ServerAssumption ==
  /\ Seeds \in Seq(Ids)
  /\ \A k, l \in DOMAIN Seeds : Seeds[k] = Seeds[l] => k = l
  /\ "absent" \notin Ids
  /\ "none" \notin SeedSet /\ "" \notin SeedSet
  /\ Host \notin {"none", "absent"}
  /\ Files \subseteq [from : STRING, domain : STRING]
  /\ \A f \in Files : f.from # "absent"

VARIABLES
  tests,      \* tests[id]: the entry of the Map, or NoTest
  order,      \* its keys, in the order they were first set
  reports,    \* reports[id], or NoReport
  rawEmails   \* rawEmails[id], or NoMail

serverVars == <<tests, order, reports, rawEmails>>

AnalysisDelay == 3      \* 3500 ms: the first whole second after them is the 4th
MaxAge        == AnalysisDelay + 1   \* ages above it are not told apart
Example       == "example.com"

NoTest   == [status |-> "absent"]
NoReport == [test |-> "absent"]
NoMail   == [from |-> "absent", domain |-> "absent"]

-----------------------------------------------------------------------------
(* What generateSampleReport makes of its arguments.                       *)

Sender(domain) == [from |-> "sender", domain |-> domain]

SampleMail(mail) == mail
SampleReport(id, mail, source) ==
  [test |-> id, about |-> mail, source |-> source, score |-> 95, headers |-> NoMail]

\* A localhost instance writes of example.com, any other of itself.
HostMail == Sender(IF Host = "localhost" THEN Example ELSE Host)

\* The From header of an uploaded file, and what stands in for its parts.
UploadSender(file) ==
  [from   |-> IF file.from = "none" \/ file = EmptyFile THEN "uploaded" ELSE file.from,
   domain |-> IF file.domain = "none" \/ file = EmptyFile THEN Example ELSE file.domain]

-----------------------------------------------------------------------------
(* The entries of the Map tests.                                           *)

\* age is Date.now() - createdAtMs in seconds; it matters while the test is pending.
\* created is created_at, of which only the order is told.
PendingTest(id, now) ==
  [id |-> id, status |-> "pending", created |-> now, age |-> 0, score |-> 0, grade |-> "A",
   dmarc |-> "none", source |-> "none", mail |-> NoMail]
AnalyzedTest(t) ==
  [id |-> t.id, status |-> "analyzed", created |-> t.created, age |-> 0, score |-> 94,
   grade |-> t.grade, dmarc |-> "pass", source |-> t.source, mail |-> HostMail]
UploadedTest(id, mail, now) ==
  [id |-> id, status |-> "analyzed", created |-> now, age |-> 0, score |-> 95,
   grade |-> "A", dmarc |-> "pass", source |-> "uploaded", mail |-> mail]

\* The seeds date from the hours before the start, each from before the one stored
\* before it.
SeedDate(id)   == Len(Seeds) - (CHOOSE k \in DOMAIN Seeds : Seeds[k] = id)
SeedMail(id)   == [from |-> id, domain |-> id]
SeedTest(id)   == [id |-> id, status |-> "analyzed", created |-> SeedDate(id), age |-> 0,
                   score  |-> CASE id = "seed2" -> 88 [] id = "seed3" -> 98
                                [] id = "seed4" -> 92 [] id = "seed5" -> 74 [] OTHER -> 95,
                   grade  |-> CASE id = "seed2" -> "B" [] id = "seed3" -> "A+"
                                [] id = "seed5" -> "C" [] OTHER -> "A",
                   dmarc  |-> IF id = "seed5" THEN "neutral" ELSE "pass",
                   source |-> CASE id = "seed1" -> "none" [] id = "seed4" -> "uploaded"
                                [] OTHER -> "received",
                   mail   |-> SeedMail(id)]

Known(id) == tests[id] # NoTest
Listed(id) == order' = IF Known(id) THEN order ELSE Append(order, id)
SetTest(id, t) == tests' = [tests EXCEPT ![id] = t] /\ Listed(id)

\* What new Date() may say, of a clock that is not set back: after the seeds and not
\* before any test, but perhaps in the same millisecond.
Moments == {now \in Len(Seeds) .. Len(order) :
              \A id \in Ids : Known(id) => tests[id].created <= now}

\* A report and the mail it describes, stored together.
\* Mutant: the mail is left as it was.
FileReportAlone(id, mail, source) ==
  /\ reports' = [reports EXCEPT ![id] = SampleReport(id, mail, source)]
  /\ UNCHANGED rawEmails
FileReport(id, mail, source) ==
  /\ reports' = [reports EXCEPT ![id] = SampleReport(id, mail, source)]
  /\ rawEmails' = [rawEmails EXCEPT ![id] = SampleMail(mail)]

ServerInit ==
  /\ tests = [id \in Ids |-> IF id \in SeedSet THEN SeedTest(id) ELSE NoTest]
  /\ order = Seeds
  /\ reports = [id \in Ids |-> IF id \in SeedSet
                               THEN SampleReport(id, SeedMail(id), "received") ELSE NoReport]
  /\ rawEmails = [id \in Ids |-> IF id \in SeedSet THEN SeedMail(id) ELSE NoMail]

-----------------------------------------------------------------------------
(* The handlers.                                                           *)

\* POST /api/test: generateBase32Id never repeats an id.
CreateTest(id) ==
  /\ ~Known(id)
  /\ \E now \in Moments : SetTest(id, PendingTest(id, now))
  /\ UNCHANGED <<reports, rawEmails>>

\* POST /api/test/upload with a file, be it empty.
UploadReport(id, file) ==
  [SampleReport(id, UploadSender(file), "uploaded") EXCEPT !.headers = file]
UploadTest(id, file) ==
  /\ ~Known(id)
  /\ \E now \in Moments : SetTest(id, UploadedTest(id, UploadSender(file), now))
  /\ reports' = [reports EXCEPT ![id] = UploadReport(id, file)]
  /\ rawEmails' = [rawEmails EXCEPT ![id] = file]

\* GET /api/test/:id: asking for a test is what creates an unknown one and
\* what completes one that has been pending for long enough.
Ready(t) == t.status = "pending" /\ t.age > AnalysisDelay
Entries(id) == IF Known(id) THEN {tests[id]} ELSE {PendingTest(id, now) : now \in Moments}
\* Mutant: whoever asks first finds the test analyzed, and its report is left for later.
GetTestFirst(id) ==
  /\ \E t \in Entries(id) : SetTest(id, IF Ready(t) THEN AnalyzedTest(t) ELSE t)
  /\ UNCHANGED <<reports, rawEmails>>
GetTest(id) ==
  \E t \in Entries(id) :
    /\ SetTest(id, IF Ready(t) THEN AnalyzedTest(t) ELSE t)
    /\ IF Ready(t) THEN FileReport(id, HostMail, "received")
                   ELSE UNCHANGED <<reports, rawEmails>>

\* GET /api/report/:id: a report there is not is made up on the spot.
GetReport(id) ==
  /\ IF reports[id] = NoReport THEN FileReport(id, Sender(Example), "received")
                               ELSE UNCHANGED <<reports, rawEmails>>
  /\ UNCHANGED <<tests, order>>

\* GET /api/report/:id/raw: so is a mail, without a report.  An empty one is taken
\* for none.
NoText(mail) == mail \in {NoMail, EmptyFile}
GetRaw(id) ==
  /\ rawEmails' = IF NoText(rawEmails[id])
                  THEN [rawEmails EXCEPT ![id] = SampleMail(Sender(Example))] ELSE rawEmails
  /\ UNCHANGED <<tests, order, reports>>

\* POST /api/report/:id/reanalyze
Reanalyze(id) ==
  /\ FileReport(id, Sender(Example), "received")
  /\ UNCHANGED <<tests, order>>

\* A second passes.
Age(t) == IF t # NoTest /\ t.status = "pending" /\ t.age < MaxAge
          THEN [t EXCEPT !.age = @ + 1] ELSE t
ServerSecond ==
  /\ tests' = [id \in Ids |-> Age(tests[id])]
  /\ UNCHANGED <<order, reports, rawEmails>>

-----------------------------------------------------------------------------
(* GET /api/tests                                                          *)

\* The rows, the last stored first; fields a test lacks get a default.
Summary(t) == [id      |-> t.id,
               created |-> t.created,
               score   |-> t.score,
               grade   |-> t.grade,
               dmarc   |-> IF t.dmarc = "none" THEN "pass" ELSE t.dmarc,
               source  |-> IF t.source = "none" THEN "received" ELSE t.source]
Rows == LET latest == Reverse(order) IN [i \in DOMAIN order |-> Summary(tests[latest[i]])]

MaxLimit == 100
Slice(s, first, last) == SubSeq(s, first, IF last > Len(s) THEN Len(s) ELSE last)
\* Mutant: the page starts one row late.
ListPageLate(offset, limit) ==
  [rows |-> Slice(Rows, offset + 2, offset + limit + 1), total |-> Len(Rows)]
ListPage(offset, limit) ==
  LET most == IF limit > MaxLimit THEN MaxLimit ELSE limit IN
  [rows |-> Slice(Rows, offset + 1, offset + most), total |-> Len(Rows)]

-----------------------------------------------------------------------------
(* The lookups keep no state.                                              *)

\* POST /api/domain, for the records that were found there; a lookup that
\* fails finds none.
DomainScore(found) ==
  50 + (IF "mx" \in found THEN 15 ELSE 0) + (IF "spf" \in found THEN 15 ELSE 0)
     + (IF "dmarc" \in found THEN 15 ELSE 0) + (IF "bimi" \in found THEN 5 ELSE 0)
DomainLetter(score) ==
  CASE score >= 95 -> "A+" [] score >= 85 /\ score < 95 -> "A" [] score >= 75 /\ score < 85 -> "B"
    [] score >= 65 /\ score < 75 -> "C" [] score >= 50 /\ score < 65 -> "D" [] OTHER -> "F"
PostDomain(domain, found) ==
  [domain |-> domain, score |-> DomainScore(found), grade |-> DomainLetter(DomainScore(found)),
   valid |-> found \cap {"spf", "dmarc", "bimi"}]

\* POST /api/blacklist: every address is on no block list, and the number of
\* listings has a name of its own.
PostBlacklist(ip) == [ip |-> ip, score |-> 100, grade |-> "A+", listedCount |-> 0]

-----------------------------------------------------------------------------
(* The server by itself, its clients arbitrary.                            *)

ServerOp(id) ==
  \/ CreateTest(id)
  \/ \E file \in Files : UploadTest(id, file)
  \/ GetTest(id)
  \/ GetReport(id)
  \/ GetRaw(id)
  \/ Reanalyze(id)

ServerNext ==
  \/ \E id \in Ids : ServerOp(id)
  \/ ServerSecond

ServerSpec == ServerInit /\ [][ServerNext]_serverVars

-----------------------------------------------------------------------------
(* What the server promises.                                               *)

Letters == {"A+", "A", "B", "C", "D", "E", "F"}
Mail   == [from : {"sender", "uploaded"} \cup SeedSet, domain : {Example, Host} \cup SeedSet]
            \cup Files \cup {UploadSender(f) : f \in Files}
Test   == [id : Ids, status : {"pending", "analyzed"}, created : Nat, age : 0 .. MaxAge,
           score : 0 .. 100, grade : Letters, dmarc : {"none", "pass", "neutral"},
           source : {"none", "received", "uploaded"},
           mail : Mail \cup {NoMail}]
Report == [test : Ids, about : Mail, source : {"received", "uploaded"}, score : 0 .. 100,
           headers : Files \cup {NoMail}]

\* The state is what the Maps may hold.
ServerTypeOK ==
  /\ tests \in [Ids -> Test \cup {NoTest}]
  /\ order \in Seq(Ids)
  /\ reports \in [Ids -> Report \cup {NoReport}]
  /\ rawEmails \in [Ids -> Mail \cup {NoMail}]

\* A test a client is told is analyzed has its report and its raw email
\* (server.js:518-540, 543-581): the request for the report after it makes none up.
AnalyzedIsFiled ==
  \A id \in Ids : Known(id) /\ tests[id].status = "analyzed" =>
    reports[id] # NoReport /\ rawEmails[id] # NoMail

\* The raw email kept next to a report is the mail the report is about, and the upload
\* whose header it repeats, whatever requests made, replaced or invented either
\* (server.js:469-541, 616-654).  Only an upload without content may have given way
\* to the sample, at a request for it (server.js:636-639).
RawIsOfReport ==
  \A id \in Ids : reports[id] # NoReport =>
    LET report == reports[id]
        raw    == rawEmails[id] IN
    /\ raw # NoMail
    /\ \/ report.about = UploadSender(raw) /\ report.headers \in {NoMail, raw}
       \/ report.headers = EmptyFile /\ raw = SampleMail(Sender(Example))

\* The test of identifier a entered the Map after that of identifier b.
Newer(a, b) == a # b /\ \E m, n \in DOMAIN order : n < m /\ order[m] = a /\ order[n] = b

\* Asked page by page, GET /api/tests shows every test (server.js:584-613), and none
\* twice or before one that entered the Map after it.
PagedBy(limit) ==
  LET Page(k) == ListPage(k * limit, limit).rows IN
  /\ \A id \in Ids : Known(id) =>
       \E k \in 0 .. Len(order) : \E i \in DOMAIN Page(k) : Page(k)[i] = Summary(tests[id])
  /\ \A k, l \in 0 .. Len(order) : \A i \in DOMAIN Page(k), j \in DOMAIN Page(l) :
       k < l \/ (k = l /\ i < j) => Newer(Page(k)[i].id, Page(l)[j].id)

\* So it does for the sizes of page that divide the lists of a run, and do not.
Paged == \A limit \in 1 .. 3 : PagedBy(limit)

===============================================================================

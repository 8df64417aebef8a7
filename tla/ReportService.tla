---------------------------- MODULE ReportService ----------------------------
(***************************************************************************)
(* The life of a deliverability report in a happyDeliver server.           *)
(*                                                                         *)
(* Mail reaches EmailReceiver.ProcessEmailBytes, called by one goroutine   *)
(* per LMTP session; HTTP handlers create tests, upload messages,          *)
(* re-analyse stored ones and read reports; an hourly cleanup deletes the  *)
(* old rows; the process may crash and restart over the same database.     *)
(* None of them takes a lock or opens a transaction that spans two         *)
(* statements: between the statement that reads and the one that writes    *)
(* there is a whole analysis (DNS, blacklists, HTTP), and everybody else   *)
(* runs in between.  Each action below is therefore one database statement *)
(* together with the local work around it.                                 *)
(***************************************************************************)
EXTENDS ReportTable, FiniteSets

CONSTANTS
  TestIDs,      \* test identifiers (uuids)
  Mails,        \* raw messages
  Unparsable,   \* those of them mailmsg.Parse rejects
  Callers,      \* LMTP goroutines that may be inside ProcessEmailBytes
  Handlers,     \* HTTP goroutines
  Retention,    \* ReportRetention, in ticks of the clock; 0 = keep forever
  DatabaseFails,\* may a statement fail for a reason of the database's own?
  None          \* "no value" in the record of a goroutine

ASSUME UnparsableAssumption == Unparsable \subseteq Mails
ASSUME RetentionAssumption  == Retention \in Nat
ASSUME DatabaseAssumption   == DatabaseFails \in BOOLEAN
ASSUME NoneAssumption       == None \notin TestIDs \cup Mails \cup {"received", "uploaded"}

VARIABLES
  reports,    \* the reports table
  calls,      \* calls[c]: the ProcessEmailBytes call goroutine c is in
  requests,   \* requests[h]: the request handler goroutine h is in
  up,         \* is the server process running?
  named,      \* every test id generated by the server or used by a sender
  past,       \* history: past[t] is every report ever first stored for t
  expired,    \* history: the tests that lost a report to the cleanup
  seen        \* history: the tests some client was told are analyzed

service == <<calls, requests, up, named>>
history == <<past, expired, seen>>
vars    == <<reports, service, history>>

Sources == {"received", "uploaded"}
Report  == [mail : Mails, source : Sources]
MaxAge  == Retention + 1        \* ages above it are not told apart
Row     == [testID : TestIDs, raw : Mails, json : Report, age : 0 .. MaxAge]

CallStep    == {"idle", "analyzing", "accepted", "rejected"}
RequestStep == {"idle", "uploading", "reanalyzing"}
Call        == [at : CallStep, test : TestIDs \cup {None}, mail : Mails \cup {None}]
Request     == [at : RequestStep, test : TestIDs \cup {None}, mail : Mails \cup {None},
                source : Sources \cup {None}]

NoCall    == [at |-> "idle", test |-> None, mail |-> None]
NoRequest == [at |-> "idle", test |-> None, mail |-> None, source |-> None]

\* One type invariant for the whole module.
TypeOK ==
  /\ reports \subseteq Row
  /\ calls \in [Callers -> Call]
  /\ requests \in [Handlers -> Request]
  /\ up \in BOOLEAN
  /\ named \subseteq TestIDs
  /\ past \in [TestIDs -> SUBSET Report]
  /\ expired \subseteq TestIDs
  /\ seen \subseteq TestIDs

Init ==
  /\ reports = {}
  /\ calls = [c \in Callers |-> NoCall]
  /\ requests = [h \in Handlers |-> NoRequest]
  /\ up = TRUE
  /\ named = {}
  /\ past = [t \in TestIDs |-> {}]
  /\ expired = {}
  /\ seen = {}

-----------------------------------------------------------------------------
(* The analysis, and the statement that stores its first result.           *)

\* EmailAnalyzer.AnalyzeEmailBytes fails only when the message cannot be parsed.
\* Mutant: the provenance does not reach the report.
AnalysisWithoutSource(mail, source) == [mail |-> mail, source |-> None]
Analysis(mail, source) == [mail |-> mail, source |-> source]

\* CreateReport, with the row it leaves in the history.
Publish(t, mail, source) ==
  /\ reports' = Insert(reports, t, mail, Analysis(mail, source))
  /\ past' = [past EXCEPT ![t] = @ \cup {Analysis(mail, source)}]
  /\ UNCHANGED <<expired, seen>>

-----------------------------------------------------------------------------
(* EmailReceiver.ProcessEmailBytes                                         *)

\* Ids that exist only in the memory of an upload: nobody can write to them.
Secret == {requests[h].test : h \in {g \in Handlers : requests[g].at = "uploading"}}

Answer(c, verdict) == calls' = [calls EXCEPT ![c].at = verdict]

\* A mail for test t: extractTestID, then ReportExists.  An existing report
\* means the mail is accepted without being looked at; a failing query is an
\* error.
Receive(c, t, mail) ==
  /\ up
  /\ calls[c].at \in {"idle", "accepted", "rejected"}
  /\ t \notin Secret
  /\ named' = named \cup {t}
  /\ \E verdict \in {IF Exists(reports, t) THEN "accepted" ELSE "analyzing"}
                    \cup (IF DatabaseFails THEN {"rejected"} ELSE {}) :
       calls' = [calls EXCEPT ![c] = [at |-> verdict, test |-> t, mail |-> mail]]
  /\ UNCHANGED <<reports, requests, up, history>>

\* The analysis succeeded and CreateReport stores it: another call for the
\* same test may have been first, and then the index refuses the row.
\* Mutant: the error of CreateReport is logged and forgotten.
StoreOrForget(c) ==
  LET t == calls[c].test  mail == calls[c].mail IN
  /\ calls[c].at = "analyzing"
  /\ mail \notin Unparsable
  /\ \/ Insertable(reports, t) /\ Publish(t, mail, "received")
     \/ DatabaseFails /\ UNCHANGED <<reports, history>>
  /\ Answer(c, "accepted")
  /\ UNCHANGED <<requests, up, named>>
Store(c) ==
  LET t == calls[c].test  mail == calls[c].mail IN
  /\ calls[c].at = "analyzing"
  /\ mail \notin Unparsable
  /\ Insertable(reports, t)
  /\ Publish(t, mail, "received")
  /\ Answer(c, "accepted")
  /\ UNCHANGED <<requests, up, named>>

\* The mail does not parse, the index refuses the row or the database fails.
\* Mutant: a failed statement is not an error, the call tries until it succeeds.
FailWithoutIndex(c) ==
  /\ calls[c].at = "analyzing"
  /\ calls[c].mail \in Unparsable
  /\ Answer(c, "rejected")
  /\ UNCHANGED <<reports, requests, up, named, history>>
FailStore(c) ==
  /\ calls[c].at = "analyzing"
  /\ \/ calls[c].mail \in Unparsable
     \/ ~Insertable(reports, calls[c].test)
     \/ DatabaseFails
  /\ Answer(c, "rejected")
  /\ UNCHANGED <<reports, requests, up, named, history>>

-----------------------------------------------------------------------------
(* APIHandler                                                              *)

Begin(h, request) ==
  /\ up
  /\ requests[h].at = "idle"
  /\ requests' = [requests EXCEPT ![h] = request]

Finish(h) == requests' = [requests EXCEPT ![h] = NoRequest]

\* CreateTest hands out a fresh id (uuid.New never repeats) and stores nothing.
CreateTest ==
  /\ up
  /\ \E t \in TestIDs \ named : named' = named \cup {t}
  /\ UNCHANGED <<reports, calls, requests, up, history>>

\* UploadEml: the message gets an id of its own, then is analyzed.
UploadEml(h, mail) ==
  \E t \in TestIDs \ named :
    /\ Begin(h, [at |-> "uploading", test |-> t, mail |-> mail, source |-> "uploaded"])
    /\ named' = named \cup {t}
    /\ UNCHANGED <<reports, calls, up, history>>

\* The 201 that ends an upload.
StoreUpload(h) ==
  LET r == requests[h] IN
  /\ r.at = "uploading"
  /\ r.mail \notin Unparsable
  /\ Insertable(reports, r.test)
  /\ Publish(r.test, r.mail, r.source)
  /\ Finish(h)
  /\ UNCHANGED <<calls, up, named>>

\* The provenance read back from the stored report.
\* Mutant: every re-analysis treats the mail as received.
ReceivedSource(row) == "received"
ReportSource(row) == row.json.source

\* ReanalyzeReport reads the mail and the provenance of the stored report...
ReanalyzeReport(h, t) ==
  /\ Exists(reports, t)
  /\ LET row == RowFor(reports, t) IN
       Begin(h, [at |-> "reanalyzing", test |-> t, mail |-> row.raw,
                 source |-> ReportSource(row)])
  /\ UNCHANGED <<reports, calls, up, named, history>>

\* ... and, an analysis later, overwrites the report of whatever row the test
\* has then.
\* Mutant: a save in place of the update, which inserts a row, without a raw
\* email, where there is none any more.
StoreReanalysisAsSave(h) ==
  LET r == requests[h] IN
  /\ r.at = "reanalyzing"
  /\ r.mail \notin Unparsable
  /\ reports' = IF Exists(reports, r.test)
                THEN Rewrite(reports, r.test, Analysis(r.mail, r.source))
                ELSE Insert(reports, r.test, None, Analysis(r.mail, r.source))
  /\ Finish(h)
  /\ UNCHANGED <<calls, up, named, history>>
StoreReanalysis(h) ==
  LET r == requests[h] IN
  /\ r.at = "reanalyzing"
  /\ r.mail \notin Unparsable
  /\ Exists(reports, r.test)
  /\ reports' = Rewrite(reports, r.test, Analysis(r.mail, r.source))
  /\ Finish(h)
  /\ UNCHANGED <<calls, up, named, history>>

\* A 4xx or 5xx answer in place of the last statement of an upload or of a
\* re-analysis: the mail does not parse, the row cannot be inserted or is no
\* longer there (ErrNotFound), or the database fails.
FailRequest(h) ==
  LET r == requests[h] IN
  /\ r.at # "idle"
  /\ \/ r.mail \in Unparsable
     \/ r.at = "uploading" /\ ~Insertable(reports, r.test)
     \/ r.at = "reanalyzing" /\ ~Exists(reports, r.test)
     \/ DatabaseFails
  /\ Finish(h)
  /\ UNCHANGED <<reports, calls, up, named, history>>

\* GetTest answers "analyzed", GetReport or GetRawEmail answer 200: a client
\* knows that test t has a report.  When it has none they answer "pending"
\* and 404, and nothing changes.
ShowAnalyzed(t) ==
  /\ up
  /\ Exists(reports, t)
  /\ seen' = seen \cup {t}
  /\ UNCHANGED <<reports, service, past, expired>>

-----------------------------------------------------------------------------
(* CleanupService, the clock and the process                               *)

\* runCleanup is reached only when Start did not return early.
Cleaning == Retention > 0

RunCleanup ==
  /\ Cleaning
  /\ reports' = DeleteOld(reports, Retention)
  /\ expired' = expired \cup {row.testID : row \in reports \ reports'}
  /\ UNCHANGED <<past, seen>>

\* The hourly ticker fires.  A failing DELETE is logged and nothing changes.
Cleanup ==
  /\ up
  /\ RunCleanup
  /\ UNCHANGED service

\* One unit of time passes for every stored row.
Aged(row) == [row EXCEPT !.age = IF row.age < MaxAge THEN row.age + 1 ELSE row.age]

Tick ==
  /\ reports' = {Aged(row) : row \in reports}
  /\ UNCHANGED <<service, history>>

\* The process dies: every goroutine is gone, the database stays.
Crash ==
  /\ up
  /\ up' = FALSE
  /\ calls' = [c \in Callers |-> NoCall]
  /\ requests' = [h \in Handlers |-> NoRequest]
  /\ UNCHANGED <<reports, named, history>>

\* RunServer: the first cleanup runs to its end before the LMTP listener and
\* the API server start.
Restart ==
  /\ ~up
  /\ up' = TRUE
  /\ \/ RunCleanup
     \/ (~Cleaning \/ DatabaseFails) /\ UNCHANGED <<reports, history>>
  /\ UNCHANGED <<calls, requests, named>>

-----------------------------------------------------------------------------
Deliver(c) ==
  \/ \E t \in TestIDs, mail \in Mails : Receive(c, t, mail)
  \/ Store(c)
  \/ FailStore(c)

Serve(h) ==
  \/ \E mail \in Mails : UploadEml(h, mail)
  \/ StoreUpload(h)
  \/ \E t \in TestIDs : ReanalyzeReport(h, t)
  \/ StoreReanalysis(h)
  \/ FailRequest(h)

Next ==
  \/ \E c \in Callers : Deliver(c)
  \/ \E h \in Handlers : Serve(h)
  \/ CreateTest
  \/ \E t \in TestIDs : ShowAnalyzed(t)
  \/ Cleanup
  \/ Tick
  \/ Crash
  \/ Restart

Spec == Init /\ [][Next]_vars

\* What the Go scheduler, the ticker and the supervisor (it restarts the
\* process) give: a goroutine that is in a call goes on, time passes, a dead
\* process comes back, and the cleanup that runs again and again is not
\* refused by the database for ever.
Fairness ==
  /\ \A c \in Callers : WF_vars(Store(c) \/ FailStore(c))
  /\ \A h \in Handlers : WF_vars(StoreUpload(h) \/ StoreReanalysis(h) \/ FailRequest(h))
  /\ WF_vars(Tick)
  /\ WF_vars(Restart)
  /\ SF_vars(Cleanup)

FairSpec == Spec /\ Fairness

-----------------------------------------------------------------------------
(* Properties                                                              *)

\* A test never has two reports, although ProcessEmailBytes checks for a
\* report long before it stores one and nothing is locked in between.
OneReportPerTest ==
  \A first, second \in reports : first.testID = second.testID => first = second

\* Every stored report is the analysis of a mail that was once accepted for
\* this very test, under a provenance a mail of this test had: no interleaving
\* of deliveries, uploads and re-analyses mixes two tests up.
Accepted(t) == {Analysis(m.mail, s.source) : m \in past[t], s \in past[t]}
ReportOfAcceptedMail == \A row \in reports : row.json \in Accepted(row.testID)

\* What the API description says of a re-analysis ("on the stored raw
\* email"): the report of a row is the analysis of the mail of that row.
ReportMatchesRawEmail == \A row \in reports : row.json.mail = row.raw

\* It is so for every test that never lost a report to the cleanup, so on an
\* instance that keeps reports for ever, always.
ReportMatchesUnlessExpired ==
  \A row \in reports : row.testID \notin expired =>
    /\ row.json.mail = row.raw
    /\ past[row.testID] = {row.json}

\* A test a client saw analyzed still has its report, unless the cleanup took
\* it: neither a crash nor a failed re-analysis takes it back.
SeenStaysAnalyzed == \A t \in seen \ expired : Exists(reports, t)

\* ReportRetention = 0 keeps reports for ever.
KeptForever == Retention = 0 => expired = {}

\* An LMTP call that ends well leaves a report for its test in the table at
\* the moment it answers.
AcceptedMeansStored ==
  [][\A c \in Callers :
       calls'[c].at = "accepted" /\ calls'[c] # calls[c]
         => Exists(reports', calls'[c].test)]_vars

\* As long as a test has a report, the raw email is the one first stored and
\* the row only gets older: a re-analysis neither replaces the mail nor
\* restarts the retention period.
RawEmailIsFinal ==
  [][\A old \in reports, new \in reports' :
       old.testID = new.testID => new.raw = old.raw /\ new.age >= old.age]_vars

\* A report leaves the table only when it is older than the retention.
OnlyOldReportsGo ==
  [][\A row \in reports :
       Exists(reports', row.testID) \/ (Retention > 0 /\ row.age > Retention)]_vars

\* With a working database, a mail is refused only when it cannot be parsed
\* or when another one was stored for its test meanwhile.
RefusalHasAReason ==
  \A c \in Callers : calls[c].at = "rejected" =>
    \/ DatabaseFails
    \/ calls[c].mail \in Unparsable
    \/ past[calls[c].test] # {}

\* Every goroutine that is analyzing answers or dies with the process.
CallsEnd ==
  /\ \A c \in Callers : calls[c].at = "analyzing" ~> calls[c].at # "analyzing"
  /\ \A h \in Handlers : requests[h].at # "idle" ~> requests[h].at = "idle"

\* With a retention, no report stays: re-analyses, crashes and restarts do not
\* postpone its deletion for ever.
ReportsExpire ==
  \A t \in TestIDs : (Retention > 0 /\ Exists(reports, t)) ~> ~Exists(reports, t)

-----------------------------------------------------------------------------
(* The inductive invariant of ReportServiceProofs: the properties above, and *)
(* what makes them survive every step.                                       *)

\* A goroutine knows the test and the mail of the call it is in or was in last.
FramesOK ==
  /\ \A c \in Callers : calls[c].at # "idle" =>
       calls[c].test \in TestIDs /\ calls[c].mail \in Mails
  /\ \A h \in Handlers : requests[h].at # "idle" =>
       /\ requests[h].test \in TestIDs
       /\ requests[h].mail \in Mails
       /\ requests[h].source \in Sources

\* The raw email of a row was accepted for its test, and so was its report.
RawsFromPast == \A row \in reports : \E p \in past[row.testID] : p.mail = row.raw

\* A test that once had a report has one, unless the cleanup took it.
PastIsPresent == \A t \in TestIDs \ expired : past[t] # {} => Exists(reports, t)

\* What a re-analysis in flight will write belongs to its test.
ReanalysisFromPast ==
  \A h \in Handlers : requests[h].at = "reanalyzing" =>
    Analysis(requests[h].mail, requests[h].source) \in Accepted(requests[h].test)

\* A test seen analyzed once had a report.
SeenHasPast == \A t \in seen : past[t] # {}

TableInv ==
  /\ OneReportPerTest
  /\ RawsFromPast
  /\ ReportOfAcceptedMail
  /\ PastIsPresent
  /\ ReportMatchesUnlessExpired
  /\ KeptForever

IInv ==
  /\ TypeOK
  /\ FramesOK
  /\ TableInv
  /\ ReanalysisFromPast
  /\ SeenHasPast

-----------------------------------------------------------------------------
(* The refinement of ReportLifecycle                                       *)

MailOf   == [t \in TestIDs |-> IF Exists(reports, t) THEN RowFor(reports, t).raw ELSE None]
ReportOf == [t \in TestIDs |-> IF Exists(reports, t) THEN RowFor(reports, t).json ELSE None]
Young    == {t \in TestIDs : Exists(reports, t) /\ RowFor(reports, t).age =< Retention}

Lifecycle == INSTANCE ReportLifecycle
               WITH mail <- MailOf, report <- ReportOf, young <- Young,
                    KeepForever <- (Retention = 0)

\* The table, the goroutines, the cleanup and the crashes together keep the
\* promise of ReportLifecycle: the first mail wins, a report is refreshed only
\* from the test's own mails, which does not lengthen its life, and it ends when
\* it is older than the retention (storage.go:139), not at that very age.
ImplementsLifecycle == Lifecycle!Spec
==============================================================================

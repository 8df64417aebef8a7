------------------------- MODULE ReportServiceProofs -------------------------
(***************************************************************************)
(* Theorems about ReportService, for any numbers of tests, mails, LMTP and *)
(* HTTP goroutines and any retention.                                      *)
(*                                                                         *)
(* The argument goes through IInv.  Its parts that speak of the table and  *)
(* its history (TableInv) are disturbed by four kinds of statement only:   *)
(* an INSERT, an UPDATE, the DELETE of the cleanup and the passing of      *)
(* time; TableStep finds which one a step is, and one lemma for each shows *)
(* that it keeps TableInv.                                                 *)
(***************************************************************************)
EXTENDS ReportService, TLAPS

-----------------------------------------------------------------------------
(* The table                                                               *)

UniqueRows(table) == \A a, b \in table : a.testID = b.testID => a = b

\* With one row per test, GetReport returns the row of the test.
LEMMA RowForRow ==
  ASSUME NEW table \in SUBSET Row, NEW t, NEW row \in table,
         UniqueRows(table), row.testID = t
  PROVE  RowFor(table, t) = row
<1>1. Matching(table, t) = {row}
  BY DEF Matching, UniqueRows
<1>2. row.age =< row.age
  BY RetentionAssumption DEF Row, MaxAge
<1>3. RowFor(table, t) = CHOOSE best \in {row} : \A other \in {row} : best.age =< other.age
  BY <1>1 DEF RowFor
<1> QED
  BY <1>2, <1>3

\* The same, for a test that is known to have a row.
LEMMA RowForMember ==
  ASSUME NEW table \in SUBSET Row, NEW t, UniqueRows(table), Exists(table, t)
  PROVE  /\ RowFor(table, t) \in table
         /\ RowFor(table, t).testID = t
<1>1. PICK row \in table : row.testID = t
  BY DEF Exists, Matching
<1>2. RowFor(table, t) = row
  BY <1>1, RowForRow
<1> QED
  BY <1>1, <1>2

\* What an UPDATE makes of a row.
Rewritten(row, t, json) == IF row.testID = t THEN [row EXCEPT !.json = json] ELSE row

LEMMA RewriteRows ==
  ASSUME NEW t, NEW json
  PROVE  Rewrite(reports, t, json) = {Rewritten(row, t, json) : row \in reports}
BY DEF Rewrite, Rewritten

LEMMA RewrittenRow ==
  ASSUME NEW t, NEW json \in Report, NEW row \in Row
  PROVE  /\ Rewritten(row, t, json) \in Row
         /\ Rewritten(row, t, json).testID = row.testID
         /\ Rewritten(row, t, json).raw = row.raw
         /\ Rewritten(row, t, json).age = row.age
         /\ Rewritten(row, t, json).json = IF row.testID = t THEN json ELSE row.json
BY DEF Rewritten, Row

\* What time makes of a row.
LEMMA AgedRow ==
  ASSUME NEW row \in Row
  PROVE  /\ Aged(row) \in Row
         /\ Aged(row).testID = row.testID
         /\ Aged(row).raw = row.raw
         /\ Aged(row).json = row.json
         /\ Aged(row).age >= row.age
BY RetentionAssumption DEF Aged, Row, MaxAge

\* A report of a test stays one of its possible reports.
LEMMA AcceptedGrows ==
  ASSUME NEW t, past[t] \subseteq past'[t]
  PROVE  Accepted(t) \subseteq Accepted(t)'
BY DEF Accepted

-----------------------------------------------------------------------------
(* Types                                                                   *)

LEMMA PublishType ==
  ASSUME TypeOK, NEW t \in TestIDs, NEW m \in Mails, NEW s \in Sources, Publish(t, m, s)
  PROVE  /\ reports' \subseteq Row
         /\ past' \in [TestIDs -> SUBSET Report]
         /\ expired' \subseteq TestIDs
         /\ seen' \subseteq TestIDs
<1>1. Analysis(m, s) \in Report
  BY DEF Analysis, Report
<1>2. NewRow(t, m, Analysis(m, s)) \in Row
  BY <1>1, RetentionAssumption DEF NewRow, Row, MaxAge
<1> QED
  BY <1>1, <1>2 DEF TypeOK, Publish, Insert

LEMMA CleanupType ==
  ASSUME TypeOK, RunCleanup
  PROVE  /\ reports' \subseteq reports
         /\ expired' \subseteq TestIDs
         /\ past' = past
         /\ seen' = seen
<1>1. reports' \subseteq reports
  BY DEF RunCleanup, DeleteOld
<1>2. \A row \in reports : row.testID \in TestIDs
  BY DEF TypeOK, Row
<1> QED
  BY <1>1, <1>2 DEF TypeOK, RunCleanup

\* Every action keeps the types.
LEMMA TypeStep ==
  ASSUME TypeOK, FramesOK, OneReportPerTest, [Next]_vars
  PROVE  TypeOK' /\ FramesOK'
<1> USE DEF service, history
<1>1. ASSUME NEW c \in Callers, NEW t \in TestIDs, NEW mail \in Mails, Receive(c, t, mail)
      PROVE  TypeOK' /\ FramesOK'
  BY <1>1 DEF TypeOK, FramesOK, Receive, Call, CallStep
<1>2. ASSUME NEW c \in Callers, Store(c)
      PROVE  TypeOK' /\ FramesOK'
  <2>1. /\ calls[c].test \in TestIDs /\ calls[c].mail \in Mails
        /\ Publish(calls[c].test, calls[c].mail, "received")
        /\ calls' = [calls EXCEPT ![c].at = "accepted"]
        /\ UNCHANGED <<requests, up, named>>
    BY <1>2 DEF Store, FramesOK, Answer
  <2>2. "received" \in Sources
    BY DEF Sources
  <2>3. /\ reports' \subseteq Row /\ past' \in [TestIDs -> SUBSET Report]
        /\ expired' \subseteq TestIDs /\ seen' \subseteq TestIDs
    BY <2>1, <2>2, PublishType
  <2> QED
    BY <2>1, <2>3 DEF TypeOK, FramesOK, Call, CallStep
<1>3. ASSUME NEW c \in Callers, FailStore(c)
      PROVE  TypeOK' /\ FramesOK'
  BY <1>3 DEF TypeOK, FramesOK, FailStore, Answer, Call, CallStep
<1>4. ASSUME NEW h \in Handlers, NEW mail \in Mails, UploadEml(h, mail)
      PROVE  TypeOK' /\ FramesOK'
  BY <1>4 DEF TypeOK, FramesOK, UploadEml, Begin, Request, RequestStep, Sources
<1>5. ASSUME NEW h \in Handlers, StoreUpload(h)
      PROVE  TypeOK' /\ FramesOK'
  <2>1. /\ requests[h].test \in TestIDs /\ requests[h].mail \in Mails
        /\ requests[h].source \in Sources
        /\ Publish(requests[h].test, requests[h].mail, requests[h].source)
        /\ requests' = [requests EXCEPT ![h] = NoRequest]
        /\ UNCHANGED <<calls, up, named>>
    BY <1>5 DEF StoreUpload, FramesOK, Finish
  <2>2. /\ reports' \subseteq Row /\ past' \in [TestIDs -> SUBSET Report]
        /\ expired' \subseteq TestIDs /\ seen' \subseteq TestIDs
    BY <2>1, PublishType
  <2> QED
    BY <2>1, <2>2 DEF TypeOK, FramesOK, NoRequest, Request, RequestStep
<1>6. ASSUME NEW h \in Handlers, NEW t \in TestIDs, ReanalyzeReport(h, t)
      PROVE  TypeOK' /\ FramesOK'
  <2>1. RowFor(reports, t) \in Row
    BY <1>6, RowForMember DEF ReanalyzeReport, TypeOK, UniqueRows, OneReportPerTest
  <2>2. RowFor(reports, t).raw \in Mails /\ ReportSource(RowFor(reports, t)) \in Sources
    BY <2>1 DEF Row, Report, ReportSource
  <2> QED
    BY <1>6, <2>2
    DEF ReanalyzeReport, TypeOK, FramesOK, Begin, Request, RequestStep
<1>7. ASSUME NEW h \in Handlers, StoreReanalysis(h)
      PROVE  TypeOK' /\ FramesOK'
  <2>1. Analysis(requests[h].mail, requests[h].source) \in Report
    BY <1>7 DEF StoreReanalysis, FramesOK, Analysis, Report
  <2>2. reports' \subseteq Row
    BY <1>7, <2>1, RewriteRows, RewrittenRow DEF StoreReanalysis, TypeOK
  <2> QED
    BY <1>7, <2>2
    DEF StoreReanalysis, TypeOK, FramesOK, Finish, NoRequest, Request, RequestStep
<1>8. ASSUME NEW h \in Handlers, FailRequest(h)
      PROVE  TypeOK' /\ FramesOK'
  BY <1>8 DEF FailRequest, TypeOK, FramesOK, Finish, NoRequest, Request, RequestStep
<1>9. CASE CreateTest
  BY <1>9 DEF CreateTest, TypeOK, FramesOK
<1>10. ASSUME NEW t \in TestIDs, ShowAnalyzed(t)
       PROVE  TypeOK' /\ FramesOK'
  BY <1>10 DEF ShowAnalyzed, TypeOK, FramesOK
<1>11. CASE Cleanup
  BY <1>11, CleanupType DEF Cleanup, TypeOK, FramesOK
<1>12. CASE Tick
  <2>1. reports' \subseteq Row
    BY <1>12, AgedRow DEF Tick, TypeOK
  <2> QED
    BY <1>12, <2>1 DEF Tick, TypeOK, FramesOK
<1>13. CASE Crash
  BY <1>13
  DEF Crash, TypeOK, FramesOK, NoCall, NoRequest, Call, CallStep, Request, RequestStep
<1>14. CASE Restart
  <2>1. CASE RunCleanup
    BY <1>14, <2>1, CleanupType DEF Restart, TypeOK, FramesOK
  <2>2. CASE UNCHANGED <<reports, history>>
    BY <1>14, <2>2 DEF Restart, TypeOK, FramesOK
  <2> QED
    BY <1>14, <2>1, <2>2 DEF Restart
<1>15. CASE UNCHANGED vars
  BY <1>15 DEF vars, TypeOK, FramesOK
<1> QED
  BY <1>1, <1>2, <1>3, <1>4, <1>5, <1>6, <1>7, <1>8, <1>9, <1>10, <1>11, <1>12,
     <1>13, <1>14, <1>15
  DEF Next, Deliver, Serve

-----------------------------------------------------------------------------
(* What a step does to the table                                           *)

Overwrite(t, m, s) ==
  /\ Exists(reports, t)
  /\ Analysis(m, s) \in Accepted(t)
  /\ reports' = Rewrite(reports, t, Analysis(m, s))
  /\ UNCHANGED <<past, expired, seen>>

Rest == UNCHANGED <<reports, past, expired>> /\ seen \subseteq seen'

\* Every step inserts a first report, overwrites one, cleans up, lets time pass
\* or leaves the table alone: whatever interleaving led to it.
LEMMA TableStep ==
  ASSUME FramesOK, ReanalysisFromPast, [Next]_vars
  PROVE  \/ \E t \in TestIDs, m \in Mails, s \in Sources :
              ~Exists(reports, t) /\ Publish(t, m, s)
         \/ \E t \in TestIDs, m \in Mails, s \in Sources : Overwrite(t, m, s)
         \/ RunCleanup
         \/ Tick
         \/ Rest
<1> USE DEF service, history
<1>1. ASSUME NEW c \in Callers, Store(c)
      PROVE  \E t \in TestIDs, m \in Mails, s \in Sources : ~Exists(reports, t) /\ Publish(t, m, s)
  <2>1. "received" \in Sources
    BY DEF Sources
  <2> QED
    BY <1>1, <2>1 DEF Store, FramesOK, Insertable
<1>2. ASSUME NEW h \in Handlers, StoreUpload(h)
      PROVE  \E t \in TestIDs, m \in Mails, s \in Sources : ~Exists(reports, t) /\ Publish(t, m, s)
  BY <1>2 DEF StoreUpload, FramesOK, Insertable
<1>3. ASSUME NEW h \in Handlers, StoreReanalysis(h)
      PROVE  \E t \in TestIDs, m \in Mails, s \in Sources : Overwrite(t, m, s)
  <2>1. Overwrite(requests[h].test, requests[h].mail, requests[h].source)
    BY <1>3 DEF StoreReanalysis, Overwrite, ReanalysisFromPast
  <2> QED
    BY <1>3, <2>1 DEF StoreReanalysis, FramesOK
<1>4. ASSUME NEW c \in Callers, FailStore(c)
      PROVE  Rest
  BY <1>4 DEF FailStore, Rest
<1>5. ASSUME NEW h \in Handlers, FailRequest(h)
      PROVE  Rest
  BY <1>5 DEF FailRequest, Rest
<1>6. CASE CreateTest \/ Crash
  BY <1>6 DEF CreateTest, Crash, Rest
<1>7. ASSUME NEW t \in TestIDs, ShowAnalyzed(t)
      PROVE  Rest
  BY <1>7 DEF ShowAnalyzed, Rest
<1>8. CASE Cleanup
  BY <1>8 DEF Cleanup
<1>9. CASE Restart
  BY <1>9 DEF Restart, Rest
<1>10. CASE UNCHANGED vars
  BY <1>10 DEF vars, Rest
<1>11. ASSUME NEW h \in Handlers, NEW mail \in Mails, UploadEml(h, mail)
       PROVE  Rest
  BY <1>11 DEF UploadEml, Rest
<1>12. ASSUME NEW h \in Handlers, NEW t \in TestIDs, ReanalyzeReport(h, t)
       PROVE  Rest
  BY <1>12 DEF ReanalyzeReport, Rest
<1>13. ASSUME NEW c \in Callers, NEW t \in TestIDs, NEW mail \in Mails, Receive(c, t, mail)
       PROVE  Rest
  BY <1>13 DEF Receive, Rest
<1>14. CASE Tick
  BY <1>14
<1> QED
  BY <1>1, <1>2, <1>3, <1>4, <1>5, <1>6, <1>7, <1>8, <1>9, <1>10, <1>11, <1>12, <1>13, <1>14
  DEF Next, Deliver, Serve

\* The first report of a test.
LEMMA PublishStep ==
  ASSUME TypeOK, TableInv, NEW t \in TestIDs, NEW m \in Mails, NEW s \in Sources,
         ~Exists(reports, t), Publish(t, m, s)
  PROVE  TableInv'
<1> DEFINE new == NewRow(t, m, Analysis(m, s))
<1>1. /\ reports' = reports \cup {new}
      /\ new.testID = t /\ new.raw = m /\ new.json = Analysis(m, s)
      /\ expired' = expired
  BY DEF Publish, Insert, NewRow
<1>2. /\ past'[t] = past[t] \cup {Analysis(m, s)}
      /\ \A u \in TestIDs \ {t} : past'[u] = past[u]
  BY DEF Publish, TypeOK
<1>3. \A row \in reports : row.testID \in TestIDs \ {t} /\ row # new
  BY <1>1 DEF TypeOK, Row, Exists, Matching
<1>4. Analysis(m, s).mail = m /\ Analysis(m, s).source = s
  BY DEF Analysis
<1>5. OneReportPerTest'
  BY <1>1, <1>3 DEF TableInv, OneReportPerTest
<1>6. RawsFromPast'
  BY <1>1, <1>2, <1>3, <1>4 DEF TableInv, RawsFromPast
<1>7. ReportOfAcceptedMail'
  <2>1. Analysis(m, s) \in Accepted(t)'
    BY <1>2, <1>4 DEF Accepted
  <2>2. \A row \in reports : row.json \in Accepted(row.testID)'
    BY <1>2, <1>3, AcceptedGrows DEF TableInv, ReportOfAcceptedMail
  <2> QED
    BY <1>1, <2>1, <2>2 DEF ReportOfAcceptedMail
<1>8. PastIsPresent'
  BY <1>1, <1>2 DEF TableInv, PastIsPresent, Exists, Matching
<1>9. ReportMatchesUnlessExpired'
  <2>1. t \notin expired => past'[t] = {new.json} /\ new.json.mail = new.raw
    BY <1>1, <1>2, <1>4 DEF TableInv, PastIsPresent
  <2>2. \A row \in reports : row.testID \notin expired =>
          row.json.mail = row.raw /\ past'[row.testID] = {row.json}
    BY <1>2, <1>3 DEF TableInv, ReportMatchesUnlessExpired
  <2> QED
    BY <1>1, <2>1, <2>2 DEF ReportMatchesUnlessExpired
<1>10. KeptForever'
  BY <1>1 DEF TableInv, KeptForever
<1> QED
  BY <1>5, <1>6, <1>7, <1>8, <1>9, <1>10 DEF TableInv

\* A re-analysis.  Where the cleanup never took a report of the test there is
\* only one thing to write, and it is what the row already holds.
LEMMA OverwriteStep ==
  ASSUME TypeOK, TableInv, NEW t \in TestIDs, NEW m \in Mails, NEW s \in Sources,
         Overwrite(t, m, s)
  PROVE  TableInv'
<1> DEFINE json == Analysis(m, s)
<1>1. json \in Report /\ json.mail = m
  BY DEF Analysis, Report
<1>2. /\ reports' = {Rewritten(row, t, json) : row \in reports}
      /\ UNCHANGED <<past, expired>>
  BY RewriteRows DEF Overwrite
<1>3. ASSUME NEW row \in reports
      PROVE  /\ Rewritten(row, t, json).testID = row.testID
             /\ Rewritten(row, t, json).raw = row.raw
             /\ Rewritten(row, t, json).json = IF row.testID = t THEN json ELSE row.json
  BY <1>1, RewrittenRow DEF TypeOK
<1>4. OneReportPerTest'
  BY <1>2, <1>3 DEF TableInv, OneReportPerTest
<1>5. RawsFromPast'
  BY <1>2, <1>3 DEF TableInv, RawsFromPast
<1>6. ReportOfAcceptedMail'
  <2>1. json \in Accepted(t)
    BY DEF Overwrite
  <2>2. \A u : Accepted(u)' = Accepted(u)
    BY <1>2 DEF Accepted
  <2> QED
    BY <1>2, <1>3, <2>1, <2>2 DEF TableInv, ReportOfAcceptedMail
<1>7. PastIsPresent'
  BY <1>2, <1>3 DEF TableInv, PastIsPresent, Exists, Matching
<1>8. ReportMatchesUnlessExpired'
  <2>1. ASSUME NEW row \in reports, row.testID \notin expired
        PROVE  Rewritten(row, t, json).json = row.json
    <3>1. CASE row.testID # t
      BY <1>3, <3>1
    <3>2. CASE row.testID = t
      <4>1. past[t] = {row.json}
        BY <2>1, <3>2 DEF TableInv, ReportMatchesUnlessExpired
      <4>2. json = Analysis(row.json.mail, row.json.source)
        BY <4>1 DEF Overwrite, Accepted
      <4>3. row.json \in Report
        BY DEF TypeOK, Row
      <4>4. json = row.json
        BY <4>2, <4>3 DEF Analysis, Report
      <4> QED
        BY <1>3, <3>2, <4>4
    <3> QED
      BY <3>1, <3>2
  <2> QED
    BY <1>2, <1>3, <2>1 DEF TableInv, ReportMatchesUnlessExpired
<1>9. KeptForever'
  BY <1>2 DEF TableInv, KeptForever
<1> QED
  BY <1>4, <1>5, <1>6, <1>7, <1>8, <1>9 DEF TableInv

\* The cleanup records the tests it takes a report from.
LEMMA CleanupStep ==
  ASSUME TypeOK, TableInv, RunCleanup
  PROVE  TableInv'
<1>1. reports' \subseteq reports /\ past' = past /\ expired \subseteq expired'
  BY CleanupType DEF RunCleanup
<1>2. \A u : Accepted(u)' = Accepted(u)
  BY <1>1 DEF Accepted
<1>3. OneReportPerTest' /\ RawsFromPast' /\ ReportOfAcceptedMail' /\ ReportMatchesUnlessExpired'
  BY <1>1, <1>2
  DEF TableInv, OneReportPerTest, RawsFromPast, ReportOfAcceptedMail, ReportMatchesUnlessExpired
<1>4. PastIsPresent'
  <2> SUFFICES ASSUME NEW u \in TestIDs, u \notin expired', past[u] # {}
               PROVE  Exists(reports', u)
    BY <1>1 DEF PastIsPresent, Exists, Matching
  <2>1. PICK row \in reports : row.testID = u
    BY <1>1 DEF TableInv, PastIsPresent, Exists, Matching
  <2>2. row \in reports'
    BY <2>1 DEF RunCleanup
  <2> QED
    BY <2>1, <2>2 DEF Exists, Matching
<1>5. KeptForever'
  BY RetentionAssumption DEF RunCleanup, Cleaning, KeptForever
<1> QED
  BY <1>3, <1>4, <1>5 DEF TableInv

\* Time changes nothing but ages.
LEMMA TickStep ==
  ASSUME TypeOK, TableInv, Tick
  PROVE  TableInv'
<1>1. /\ reports' = {Aged(row) : row \in reports}
      /\ past' = past /\ expired' = expired
  BY DEF Tick, history
<1>2. ASSUME NEW row \in reports
      PROVE  Aged(row).testID = row.testID /\ Aged(row).raw = row.raw /\ Aged(row).json = row.json
  BY AgedRow DEF TypeOK
<1>3. \A u : Accepted(u)' = Accepted(u)
  BY <1>1 DEF Accepted
<1>4. OneReportPerTest'
  BY <1>1, <1>2 DEF TableInv, OneReportPerTest
<1>5. RawsFromPast' /\ ReportOfAcceptedMail' /\ ReportMatchesUnlessExpired'
  BY <1>1, <1>2, <1>3
  DEF TableInv, RawsFromPast, ReportOfAcceptedMail, ReportMatchesUnlessExpired
<1>6. PastIsPresent' /\ KeptForever'
  BY <1>1, <1>2 DEF TableInv, PastIsPresent, KeptForever, Exists, Matching
<1> QED
  BY <1>4, <1>5, <1>6 DEF TableInv

LEMMA RestStep ==
  ASSUME TableInv, Rest
  PROVE  TableInv'
BY DEF TableInv, Rest, OneReportPerTest, RawsFromPast, ReportOfAcceptedMail, PastIsPresent,
       ReportMatchesUnlessExpired, KeptForever, Accepted

-----------------------------------------------------------------------------
(* The inductive invariant                                                 *)

\* No step forgets a report a test once had.
LEMMA PastGrows ==
  ASSUME TypeOK, FramesOK, ReanalysisFromPast, [Next]_vars
  PROVE  \A t \in TestIDs : past[t] \subseteq past'[t]
<1>1. ASSUME NEW t \in TestIDs, NEW m \in Mails, NEW s \in Sources, Publish(t, m, s)
      PROVE  \A u \in TestIDs : past[u] \subseteq past'[u]
  BY <1>1 DEF Publish, TypeOK
<1>2. CASE RunCleanup \/ Tick \/ Rest
  BY <1>2 DEF RunCleanup, Tick, Rest, history
<1>3. ASSUME NEW t \in TestIDs, NEW m \in Mails, NEW s \in Sources, Overwrite(t, m, s)
      PROVE  \A u \in TestIDs : past[u] \subseteq past'[u]
  BY <1>3 DEF Overwrite
<1> QED
  BY <1>1, <1>2, <1>3, TableStep

\* A re-analysis in flight was so before, or has just read its row.
LEMMA ReanalysisOrigin ==
  ASSUME TypeOK, [Next]_vars, NEW h \in Handlers, requests'[h].at = "reanalyzing"
  PROVE  requests'[h] = requests[h] \/ \E t \in TestIDs : ReanalyzeReport(h, t)
<1> USE DEF service, history
<1>1. ASSUME NEW g \in Handlers, NEW mail \in Mails, UploadEml(g, mail)
      PROVE  requests'[h] = requests[h]
  BY <1>1 DEF UploadEml, Begin, TypeOK
<1>2. ASSUME NEW g \in Handlers, StoreUpload(g) \/ StoreReanalysis(g) \/ FailRequest(g)
      PROVE  requests'[h] = requests[h]
  BY <1>2 DEF StoreUpload, StoreReanalysis, FailRequest, Finish, NoRequest, TypeOK
<1>3. ASSUME NEW g \in Handlers, NEW t \in TestIDs, ReanalyzeReport(g, t)
      PROVE  requests'[h] = requests[h] \/ \E u \in TestIDs : ReanalyzeReport(h, u)
  BY <1>3 DEF ReanalyzeReport, Begin, TypeOK
<1>4. ASSUME NEW c \in Callers, Deliver(c)
      PROVE  requests'[h] = requests[h]
  BY <1>4 DEF Deliver, Receive, Store, FailStore
<1>5. CASE CreateTest \/ Cleanup \/ Tick \/ Restart \/ UNCHANGED vars
  BY <1>5 DEF CreateTest, Cleanup, Tick, Restart, vars
<1>6. ASSUME NEW t \in TestIDs, ShowAnalyzed(t)
      PROVE  requests'[h] = requests[h]
  BY <1>6 DEF ShowAnalyzed
<1>7. CASE Crash
  BY <1>7 DEF Crash, NoRequest
<1> QED
  BY <1>1, <1>2, <1>3, <1>4, <1>5, <1>6, <1>7 DEF Next, Serve

LEMMA ReanalysisStep ==
  ASSUME IInv, [Next]_vars
  PROVE  ReanalysisFromPast'
<1> USE DEF IInv
<1> DEFINE AcceptedNext(t) == {Analysis(m.mail, s.source) : m \in past'[t], s \in past'[t]}
<1> SUFFICES ASSUME NEW h \in Handlers, requests'[h].at = "reanalyzing"
             PROVE  Analysis(requests'[h].mail, requests'[h].source) \in AcceptedNext(requests'[h].test)
  BY DEF ReanalysisFromPast, Accepted
<1>1. CASE requests'[h] = requests[h]
  <2>1. requests[h].test \in TestIDs
    BY <1>1 DEF FramesOK
  <2>2. past[requests[h].test] \subseteq past'[requests[h].test]
    BY <2>1, PastGrows
  <2>3. Analysis(requests[h].mail, requests[h].source) \in Accepted(requests[h].test)
    BY <1>1 DEF ReanalysisFromPast
  <2>4. Analysis(requests[h].mail, requests[h].source) \in AcceptedNext(requests[h].test)
    BY <2>2, <2>3 DEF Accepted
  <2> QED
    BY <1>1, <2>4
<1>2. ASSUME NEW t \in TestIDs, ReanalyzeReport(h, t)
      PROVE  Analysis(requests'[h].mail, requests'[h].source) \in AcceptedNext(requests'[h].test)
  <2> DEFINE row == RowFor(reports, t)
  <2>1. row \in reports /\ row.testID = t
    BY <1>2, RowForMember
    DEF ReanalyzeReport, TypeOK, TableInv, OneReportPerTest, UniqueRows
  <2>2. PICK p \in past[t] : p.mail = row.raw
    BY <2>1 DEF TableInv, RawsFromPast
  <2>3. PICK m \in past[t], s \in past[t] : row.json = Analysis(m.mail, s.source)
    BY <2>1 DEF TableInv, ReportOfAcceptedMail, Accepted
  <2>4. Analysis(row.raw, row.json.source) = Analysis(p.mail, s.source)
    BY <2>2, <2>3 DEF Analysis
  <2>5. /\ requests'[h].mail = row.raw
        /\ requests'[h].source = row.json.source
        /\ requests'[h].test = t
        /\ past' = past
    BY <1>2 DEF ReanalyzeReport, Begin, ReportSource, TypeOK, history
  <2>6. Analysis(row.raw, row.json.source) \in AcceptedNext(t)
    BY <2>4, <2>5
  <2> QED
    BY <2>5, <2>6
<1> QED
  BY <1>1, <1>2, ReanalysisOrigin

LEMMA SeenStep ==
  ASSUME IInv, [Next]_vars
  PROVE  SeenHasPast'
<1> USE DEF IInv, service, history
<1>1. \A t \in TestIDs : past[t] \subseteq past'[t]
  BY PastGrows
<1>2. ASSUME NEW t \in TestIDs, ShowAnalyzed(t)
      PROVE  past[t] # {} /\ seen' = seen \cup {t}
  BY <1>2 DEF ShowAnalyzed, Exists, Matching, TableInv, RawsFromPast
<1>3. ASSUME NEW h \in Handlers, Serve(h)
      PROVE  seen' = seen
  BY <1>3 DEF Serve, UploadEml, StoreUpload, ReanalyzeReport, StoreReanalysis, FailRequest, Publish
<1>4. ASSUME NEW c \in Callers, Deliver(c)
      PROVE  seen' = seen
  BY <1>4 DEF Deliver, Receive, Store, FailStore, Publish
<1>5. CASE CreateTest \/ Cleanup \/ Tick \/ Crash \/ Restart \/ UNCHANGED vars
  <2>1. seen' = seen
    BY <1>5 DEF CreateTest, Cleanup, Tick, Crash, Restart, RunCleanup, vars
  <2> QED
    BY <1>1, <2>1 DEF SeenHasPast, TypeOK
<1>6. seen \subseteq TestIDs
  BY DEF TypeOK
<1> QED
  BY <1>1, <1>2, <1>3, <1>4, <1>5, <1>6 DEF Next, SeenHasPast

LEMMA InitInv == Init => IInv
<1> SUFFICES ASSUME Init PROVE IInv
  OBVIOUS
<1>1. TypeOK
  BY DEF Init, TypeOK, NoCall, NoRequest, Call, CallStep, Request, RequestStep
<1>2. FramesOK /\ ReanalysisFromPast
  BY DEF Init, FramesOK, ReanalysisFromPast, NoCall, NoRequest
<1>3. TableInv /\ SeenHasPast
  BY DEF Init, TableInv, OneReportPerTest, RawsFromPast, ReportOfAcceptedMail, PastIsPresent,
         ReportMatchesUnlessExpired, KeptForever, SeenHasPast
<1> QED
  BY <1>1, <1>2, <1>3 DEF IInv

LEMMA NextInv == IInv /\ [Next]_vars => IInv'
<1> SUFFICES ASSUME IInv, [Next]_vars PROVE IInv'
  OBVIOUS
<1>1. TypeOK' /\ FramesOK'
  BY TypeStep DEF IInv, TableInv
<1>2. TableInv'
  BY TableStep, PublishStep, OverwriteStep, CleanupStep, TickStep, RestStep DEF IInv
<1>3. ReanalysisFromPast'
  BY ReanalysisStep
<1>4. SeenHasPast'
  BY SeenStep
<1> QED
  BY <1>1, <1>2, <1>3, <1>4 DEF IInv

\* IInv holds in every reachable state of every instance.
THEOREM Invariance == Spec => []IInv
BY InitInv, NextInv, PTL DEF Spec

\* The variables hold what they are declared to hold, goroutines included.
THEOREM TypeCorrect == Spec => []TypeOK
BY Invariance, PTL DEF IInv

\* The check that ProcessEmailBytes makes long before it stores is no
\* protection; the unique index is, for any number of concurrent deliveries.
THEOREM Uniqueness == Spec => []OneReportPerTest
BY Invariance, PTL DEF IInv, TableInv

\* No interleaving writes into a test the analysis of another test's mail.
THEOREM NoMixUp == Spec => []ReportOfAcceptedMail
BY Invariance, PTL DEF IInv, TableInv

\* A test the cleanup never touched shows the report of its raw email.
THEOREM Consistency == Spec => []ReportMatchesUnlessExpired
BY Invariance, PTL DEF IInv, TableInv

\* ReportRetention = 0 really keeps everything...
THEOREM Forever == Spec => []KeptForever
BY Invariance, PTL DEF IInv, TableInv

\* ... and then the report of a row is always the one of its raw email.
THEOREM ConsistencyForever ==
  ASSUME Retention = 0
  PROVE  Spec => []ReportMatchesRawEmail
<1>1. IInv => ReportMatchesRawEmail
  BY DEF IInv, TableInv, KeptForever, ReportMatchesUnlessExpired, ReportMatchesRawEmail
<1> QED
  BY <1>1, Invariance, PTL

\* Nothing but the cleanup takes a report away that a client has seen.
THEOREM SeenStays == Spec => []SeenStaysAnalyzed
<1>1. IInv => SeenStaysAnalyzed
  BY DEF IInv, TypeOK, TableInv, SeenHasPast, PastIsPresent, SeenStaysAnalyzed
<1> QED
  BY <1>1, Invariance, PTL

-----------------------------------------------------------------------------
(* Steps                                                                   *)

LEMMA RawEmailStep ==
  ASSUME IInv, [Next]_vars, NEW old \in reports, NEW new \in reports',
         old.testID = new.testID
  PROVE  new.raw = old.raw /\ new.age >= old.age
<1> USE DEF IInv
<1>1. \A row \in reports : row.age \in Int
  BY RetentionAssumption DEF TypeOK, Row, MaxAge
<1>2. ASSUME NEW t \in TestIDs, NEW m \in Mails, NEW s \in Sources,
             ~Exists(reports, t), Publish(t, m, s)
      PROVE  new.raw = old.raw /\ new.age >= old.age
  <2>1. new \in reports
    BY <1>2 DEF Publish, Insert, NewRow, Exists, Matching
  <2> QED
    BY <1>1, <2>1 DEF TableInv, OneReportPerTest
<1>3. ASSUME NEW t \in TestIDs, NEW m \in Mails, NEW s \in Sources, Overwrite(t, m, s)
      PROVE  new.raw = old.raw /\ new.age >= old.age
  <2>1. Analysis(m, s) \in Report
    BY DEF Analysis, Report
  <2>2. PICK row \in reports : new = Rewritten(row, t, Analysis(m, s))
    BY <1>3, RewriteRows DEF Overwrite
  <2>3. new.testID = row.testID /\ new.raw = row.raw /\ new.age = row.age
    BY <2>1, <2>2, RewrittenRow DEF TypeOK
  <2>4. row = old
    BY <2>3 DEF TableInv, OneReportPerTest
  <2> QED
    BY <1>1, <2>3, <2>4
<1>4. CASE RunCleanup \/ Rest
  BY <1>1, <1>4, CleanupType DEF TableInv, OneReportPerTest, Rest
<1>5. CASE Tick
  <2>1. PICK row \in reports : new = Aged(row)
    BY <1>5 DEF Tick
  <2>2. new.testID = row.testID /\ new.raw = row.raw /\ new.age >= row.age
    BY <2>1, AgedRow DEF TypeOK
  <2>3. row = old
    BY <2>2 DEF TableInv, OneReportPerTest
  <2> QED
    BY <2>2, <2>3
<1> QED
  BY <1>2, <1>3, <1>4, <1>5, TableStep

\* A re-analysis never replaces the raw email nor makes a row younger.
THEOREM RawEmailFinal == Spec => RawEmailIsFinal
<1>1. IInv /\ [Next]_vars =>
        [\A old \in reports, new \in reports' :
           old.testID = new.testID => new.raw = old.raw /\ new.age >= old.age]_vars
  BY RawEmailStep
<1> QED
  BY <1>1, Invariance, PTL DEF Spec, RawEmailIsFinal

LEMMA AnswerStep ==
  ASSUME TypeOK, [Next]_vars, NEW c \in Callers,
         calls'[c].at = "accepted", calls'[c] # calls[c]
  PROVE  Exists(reports', calls'[c].test)
<1> USE DEF service, history
<1>1. ASSUME NEW d \in Callers, NEW t \in TestIDs, NEW mail \in Mails, Receive(d, t, mail)
      PROVE  Exists(reports', calls'[c].test)
  <2>1. PICK verdict \in {IF Exists(reports, t) THEN "accepted" ELSE "analyzing"}
                         \cup (IF DatabaseFails THEN {"rejected"} ELSE {}) :
          calls' = [calls EXCEPT ![d] = [at |-> verdict, test |-> t, mail |-> mail]]
    BY <1>1 DEF Receive
  <2>2. c = d /\ calls'[c].test = t /\ calls'[c].at = verdict
    BY <2>1 DEF TypeOK
  <2>3. verdict = "accepted" => Exists(reports, t)
    OBVIOUS
  <2>4. reports' = reports
    BY <1>1 DEF Receive
  <2> QED
    BY <2>2, <2>3, <2>4
<1>2. ASSUME NEW d \in Callers, Store(d)
      PROVE  Exists(reports', calls'[c].test)
  <2>1. c = d /\ calls'[c].test = calls[c].test
    BY <1>2 DEF Store, Answer, TypeOK, Call
  <2>2. Exists(reports', calls[d].test)
    <3> DEFINE new == NewRow(calls[d].test, calls[d].mail, Analysis(calls[d].mail, "received"))
    <3>1. new \in reports'
      BY <1>2 DEF Store, Publish, Insert
    <3>2. new.testID = calls[d].test
      BY DEF NewRow
    <3> QED
      BY <3>1, <3>2 DEF Exists, Matching
  <2> QED
    BY <2>1, <2>2
<1>3. ASSUME NEW d \in Callers, FailStore(d)
      PROVE  FALSE
  BY <1>3 DEF FailStore, Answer, TypeOK, Call
<1>4. ASSUME NEW h \in Handlers, Serve(h)
      PROVE  FALSE
  BY <1>4 DEF Serve, UploadEml, StoreUpload, ReanalyzeReport, StoreReanalysis, FailRequest
<1>5. CASE CreateTest \/ Cleanup \/ Tick \/ Restart \/ UNCHANGED vars
  BY <1>5 DEF CreateTest, Cleanup, Tick, Restart, vars
<1>6. ASSUME NEW t \in TestIDs, ShowAnalyzed(t)
      PROVE  FALSE
  BY <1>6 DEF ShowAnalyzed
<1>7. CASE Crash
  BY <1>7 DEF Crash, NoCall
<1> QED
  BY <1>1, <1>2, <1>3, <1>4, <1>5, <1>6, <1>7 DEF Next, Deliver

\* LMTP says "accepted" only over a stored report.
THEOREM AcceptedStored == Spec => AcceptedMeansStored
<1>1. IInv /\ [Next]_vars =>
        [\A c \in Callers :
           calls'[c].at = "accepted" /\ calls'[c] # calls[c]
             => Exists(reports', calls'[c].test)]_vars
  BY AnswerStep DEF IInv
<1> QED
  BY <1>1, Invariance, PTL DEF Spec, AcceptedMeansStored

LEMMA DisappearanceStep ==
  ASSUME IInv, [Next]_vars, NEW row \in reports
  PROVE  Exists(reports', row.testID) \/ (Retention > 0 /\ row.age > Retention)
<1> USE DEF IInv
<1>1. ASSUME NEW t \in TestIDs, NEW m \in Mails, NEW s \in Sources, Publish(t, m, s)
      PROVE  Exists(reports', row.testID)
  BY <1>1 DEF Publish, Insert, Exists, Matching
<1>2. ASSUME NEW t \in TestIDs, NEW m \in Mails, NEW s \in Sources, Overwrite(t, m, s)
      PROVE  Exists(reports', row.testID)
  <2>1. Analysis(m, s) \in Report
    BY DEF Analysis, Report
  <2>2. Rewritten(row, t, Analysis(m, s)) \in reports'
    BY <1>2, RewriteRows DEF Overwrite
  <2>3. Rewritten(row, t, Analysis(m, s)).testID = row.testID
    BY <2>1, RewrittenRow DEF TypeOK
  <2> QED
    BY <2>2, <2>3 DEF Exists, Matching
<1>3. CASE RunCleanup
  BY <1>3 DEF RunCleanup, Cleaning, DeleteOld, Older, Exists, Matching
<1>4. CASE Tick
  BY <1>4, AgedRow DEF Tick, TypeOK, Exists, Matching
<1>5. CASE Rest
  BY <1>5 DEF Rest, Exists, Matching
<1> QED
  BY <1>1, <1>2, <1>3, <1>4, <1>5, TableStep

\* Only the retention ends a report, and never early.
THEOREM OnlyOldGo == Spec => OnlyOldReportsGo
<1>1. IInv /\ [Next]_vars =>
        [\A row \in reports :
           Exists(reports', row.testID) \/ (Retention > 0 /\ row.age > Retention)]_vars
  BY DisappearanceStep
<1> QED
  BY <1>1, Invariance, PTL DEF Spec, OnlyOldReportsGo

\* Where the database works, an LMTP call fails only over its own mail or
\* after another mail of the test was stored.
THEOREM RefusalReason == Spec => []RefusalHasAReason
<1>1. Init => RefusalHasAReason
  BY DEF Init, RefusalHasAReason, NoCall
<1>2. RefusalHasAReason /\ IInv /\ IInv' /\ [Next]_vars => RefusalHasAReason'
  <2> SUFFICES ASSUME RefusalHasAReason, IInv, IInv', [Next]_vars,
                      NEW c \in Callers, calls'[c].at = "rejected", ~DatabaseFails,
                      calls'[c].mail \notin Unparsable
               PROVE  past'[calls'[c].test] # {}
    BY DEF RefusalHasAReason
  <2> USE DEF IInv, service, history
  <2>1. \A t \in TestIDs : past[t] # {} => past'[t] # {}
    BY PastGrows
  <2>2. CASE calls'[c] = calls[c]
    <3>1. past[calls[c].test] # {}
      BY <2>2 DEF RefusalHasAReason
    <3>2. calls[c].test \in TestIDs
      BY <2>2 DEF FramesOK
    <3> QED
      BY <2>1, <2>2, <3>1, <3>2
  <2>3. ASSUME NEW d \in Callers, FailStore(d), calls'[c] # calls[c]
        PROVE  past'[calls'[c].test] # {}
    <3>1. c = d /\ calls'[c].test = calls[c].test /\ calls'[c].mail = calls[c].mail
      BY <2>3 DEF FailStore, Answer, TypeOK, Call
    <3>2. PICK row \in reports : row.testID = calls[c].test
      BY <2>3, <3>1 DEF FailStore, Insertable, Exists, Matching
    <3>3. past[calls[c].test] # {} /\ past' = past
      BY <2>3, <3>2 DEF FailStore, TableInv, RawsFromPast
    <3> QED
      BY <3>1, <3>3
  <2>4. ASSUME NEW d \in Callers, NEW t \in TestIDs, NEW mail \in Mails, Receive(d, t, mail)
        PROVE  calls'[c] = calls[c]
    BY <2>4 DEF Receive, TypeOK
  <2>5. ASSUME NEW d \in Callers, Store(d)
        PROVE  calls'[c] = calls[c]
    BY <2>5 DEF Store, Answer, TypeOK, Call
  <2>6. ASSUME NEW h \in Handlers, Serve(h)
        PROVE  calls' = calls
    BY <2>6 DEF Serve, UploadEml, StoreUpload, ReanalyzeReport, StoreReanalysis, FailRequest
  <2>7. CASE CreateTest \/ Cleanup \/ Tick \/ Restart \/ UNCHANGED vars
    BY <2>7, <2>2 DEF CreateTest, Cleanup, Tick, Restart, vars
  <2>8. ASSUME NEW t \in TestIDs, ShowAnalyzed(t)
        PROVE  calls' = calls
    BY <2>8 DEF ShowAnalyzed
  <2>9. CASE Crash
    BY <2>9 DEF Crash, NoCall
  <2> QED
    BY <2>2, <2>3, <2>4, <2>5, <2>6, <2>7, <2>8, <2>9 DEF Next, Deliver
<1> QED
  BY <1>1, <1>2, Invariance, PTL DEF Spec

-----------------------------------------------------------------------------
(***************************************************************************)
(* ReportService implements ReportLifecycle: the abstract mail and report  *)
(* of a test are the columns of its row, it is young as long as its row    *)
(* is, and every statement on the table is one abstract step or none.      *)
(***************************************************************************)

(* The abstract mail and report of a table                                 *)

MailIn(table)   == [t \in TestIDs |-> IF Exists(table, t) THEN RowFor(table, t).raw ELSE None]
ReportIn(table) == [t \in TestIDs |-> IF Exists(table, t) THEN RowFor(table, t).json ELSE None]
YoungIn(table)  == {t \in TestIDs : Exists(table, t) /\ RowFor(table, t).age =< Retention}

LEMMA Columns ==
  /\ MailOf = MailIn(reports) /\ MailOf' = MailIn(reports')
  /\ ReportOf = ReportIn(reports) /\ ReportOf' = ReportIn(reports')
  /\ Young = YoungIn(reports) /\ Young' = YoungIn(reports')
BY DEF MailOf, ReportOf, Young, MailIn, ReportIn, YoungIn

\* A table with one row per test, read at a test that has a row.
LEMMA ColumnsOfRow ==
  ASSUME NEW table \in SUBSET Row, UniqueRows(table), NEW row \in table
  PROVE  /\ Exists(table, row.testID)
         /\ MailIn(table)[row.testID] = row.raw
         /\ ReportIn(table)[row.testID] = row.json
         /\ (row.testID \in YoungIn(table)) <=> (row.age =< Retention)
         /\ row.raw # None
<1>1. row.testID \in TestIDs /\ row.raw \in Mails
  BY DEF Row
<1>2. Exists(table, row.testID) /\ RowFor(table, row.testID) = row
  BY RowForRow DEF Exists, Matching
<1> QED
  BY <1>1, <1>2, NoneAssumption DEF MailIn, ReportIn, YoungIn

LEMMA ColumnsOfNoRow ==
  ASSUME NEW table, NEW t \in TestIDs, \A row \in table : row.testID # t
  PROVE  /\ ~Exists(table, t)
         /\ MailIn(table)[t] = None
         /\ ReportIn(table)[t] = None
         /\ t \notin YoungIn(table)
BY DEF Exists, Matching, MailIn, ReportIn, YoungIn

LEMMA InvTable ==
  ASSUME IInv
  PROVE  reports \in SUBSET Row /\ UniqueRows(reports)
BY DEF IInv, TypeOK, TableInv, OneReportPerTest, UniqueRows

LEMMA InvTableNext ==
  ASSUME IInv'
  PROVE  reports' \in SUBSET Row /\ UniqueRows(reports')
BY DEF IInv, TypeOK, TableInv, OneReportPerTest, UniqueRows, Row, Report, Sources, MaxAge

-----------------------------------------------------------------------------
(* One statement, one abstract step                                        *)

\* The INSERT of a first report.
LEMMA PublishAccepts ==
  ASSUME IInv, IInv', NEW t \in TestIDs, NEW m \in Mails, NEW s \in Sources,
         ~Exists(reports, t), Publish(t, m, s)
  PROVE  Lifecycle!Accept(t, m, s)
<1> DEFINE new == NewRow(t, m, Analysis(m, s))
<1>1. /\ reports' = reports \cup {new}
      /\ new.testID = t /\ new.raw = m /\ new.json = [mail |-> m, source |-> s]
      /\ new.age =< Retention
  BY RetentionAssumption DEF Publish, Insert, NewRow, Analysis
<1>2. reports \in SUBSET Row /\ UniqueRows(reports)
  BY InvTable
<1>3. reports' \in SUBSET Row /\ UniqueRows(reports')
  BY InvTableNext
<1>4. MailIn(reports)[t] = None
  BY DEF MailIn
<1>5. /\ MailIn(reports')[t] = m /\ ReportIn(reports')[t] = [mail |-> m, source |-> s]
      /\ t \in YoungIn(reports')
  BY <1>1, <1>3, ColumnsOfRow
<1>6. ASSUME NEW u \in TestIDs \ {t}
      PROVE  /\ MailIn(reports')[u] = MailIn(reports)[u]
             /\ ReportIn(reports')[u] = ReportIn(reports)[u]
             /\ (u \in YoungIn(reports')) <=> (u \in YoungIn(reports))
  <2>1. ASSUME NEW row \in reports, row.testID = u
        PROVE  /\ MailIn(reports')[u] = MailIn(reports)[u]
               /\ ReportIn(reports')[u] = ReportIn(reports)[u]
               /\ (u \in YoungIn(reports')) <=> (u \in YoungIn(reports))
    <3>1. row \in reports'
      BY <1>1, <2>1
    <3>2. /\ MailIn(reports)[u] = row.raw /\ ReportIn(reports)[u] = row.json
          /\ (u \in YoungIn(reports)) <=> (row.age =< Retention)
      BY <1>2, <2>1, ColumnsOfRow
    <3>3. /\ MailIn(reports')[u] = row.raw /\ ReportIn(reports')[u] = row.json
          /\ (u \in YoungIn(reports')) <=> (row.age =< Retention)
      BY <1>3, <2>1, <3>1, ColumnsOfRow
    <3> QED
      BY <3>2, <3>3
  <2>2. CASE \A row \in reports : row.testID # u
    <3>1. \A row \in reports' : row.testID # u
      BY <1>1, <2>2
    <3>2. MailIn(reports)[u] = None /\ ReportIn(reports)[u] = None /\ u \notin YoungIn(reports)
      BY <2>2, ColumnsOfNoRow
    <3>3. MailIn(reports')[u] = None /\ ReportIn(reports')[u] = None /\ u \notin YoungIn(reports')
      BY <3>1, ColumnsOfNoRow
    <3> QED
      BY <3>2, <3>3
  <2> QED
    BY <2>1, <2>2
<1>7. MailIn(reports') = [MailIn(reports) EXCEPT ![t] = m]
  BY <1>5, <1>6 DEF MailIn
<1>8. ReportIn(reports') = [ReportIn(reports) EXCEPT ![t] = [mail |-> m, source |-> s]]
  BY <1>5, <1>6 DEF ReportIn
<1>9. past' = [past EXCEPT ![t] = @ \cup {[mail |-> m, source |-> s]}]
  BY DEF Publish, Analysis
<1>10. YoungIn(reports') = YoungIn(reports) \cup {t}
  BY <1>5, <1>6 DEF YoungIn
<1> QED
  BY <1>4, <1>7, <1>8, <1>9, <1>10, Columns DEF Lifecycle!Accept

\* The UPDATE of a re-analysis.
LEMMA OverwriteRefreshes ==
  ASSUME IInv, IInv', NEW t \in TestIDs, NEW m \in Mails, NEW s \in Sources,
         Overwrite(t, m, s)
  PROVE  Lifecycle!Refresh(t)
<1> DEFINE json == Analysis(m, s)
<1>1. /\ json \in Report
      /\ reports' = {Rewritten(row, t, json) : row \in reports}
      /\ past' = past
  BY RewriteRows DEF Overwrite, Analysis, Report
<1>2. reports \in SUBSET Row /\ UniqueRows(reports)
  BY InvTable
<1>3. reports' \in SUBSET Row /\ UniqueRows(reports')
  BY InvTableNext
<1>4. PICK p \in past[t], q \in past[t] : json = [mail |-> p.mail, source |-> q.source]
  BY DEF Overwrite, Accepted, Analysis
<1>5. ASSUME NEW row \in reports
      PROVE  /\ MailIn(reports)[row.testID] = row.raw
             /\ row.raw # None
             /\ MailIn(reports')[row.testID] = row.raw
             /\ ReportIn(reports)[row.testID] = row.json
             /\ ReportIn(reports')[row.testID] = IF row.testID = t THEN json ELSE row.json
             /\ (row.testID \in YoungIn(reports')) <=> (row.testID \in YoungIn(reports))
  <2> DEFINE after == Rewritten(row, t, json)
  <2>1. /\ after \in reports'
        /\ after.testID = row.testID /\ after.raw = row.raw /\ after.age = row.age
        /\ after.json = IF row.testID = t THEN json ELSE row.json
    BY <1>1, <1>2, RewrittenRow
  <2>2. /\ MailIn(reports')[after.testID] = after.raw /\ ReportIn(reports')[after.testID] = after.json
        /\ (after.testID \in YoungIn(reports')) <=> (after.age =< Retention)
    BY <1>3, <2>1, ColumnsOfRow
  <2>3. /\ MailIn(reports)[row.testID] = row.raw /\ ReportIn(reports)[row.testID] = row.json
        /\ (row.testID \in YoungIn(reports)) <=> (row.age =< Retention)
        /\ row.raw # None
    BY <1>2, ColumnsOfRow
  <2> QED
    BY <2>1, <2>2, <2>3
<1>6. ASSUME NEW u \in TestIDs, \A row \in reports : row.testID # u
      PROVE  /\ MailIn(reports)[u] = None /\ MailIn(reports')[u] = None
             /\ ReportIn(reports)[u] = None /\ ReportIn(reports')[u] = None
             /\ u \notin YoungIn(reports) /\ u \notin YoungIn(reports')
  <2>1. \A row \in reports' : row.testID # u
    BY <1>1, <1>2, <1>6, RewrittenRow
  <2> QED
    BY <1>6, <2>1, ColumnsOfNoRow
<1>7. PICK own \in reports : own.testID = t
  BY DEF Overwrite, Exists, Matching
<1>8. MailIn(reports') = MailIn(reports) /\ MailIn(reports)[t] # None
  <2>1. \A u \in TestIDs : MailIn(reports')[u] = MailIn(reports)[u]
    BY <1>5, <1>6
  <2> QED
    BY <1>5, <1>7, <2>1 DEF MailIn
<1>9. ReportIn(reports') = [ReportIn(reports) EXCEPT ![t] = json]
  <2>1. ReportIn(reports')[t] = json
    BY <1>5, <1>7
  <2>2. \A u \in TestIDs \ {t} : ReportIn(reports')[u] = ReportIn(reports)[u]
    BY <1>5, <1>6
  <2> QED
    BY <2>1, <2>2 DEF ReportIn
<1>10. YoungIn(reports') = YoungIn(reports)
  <2>1. \A u \in TestIDs : (u \in YoungIn(reports')) <=> (u \in YoungIn(reports))
    BY <1>5, <1>6
  <2> QED
    BY <2>1 DEF YoungIn
<1>11. /\ MailOf[t] # None
       /\ ReportOf' = [ReportOf EXCEPT ![t] = [mail |-> p.mail, source |-> q.source]]
       /\ UNCHANGED <<MailOf, past, Young>>
  BY <1>1, <1>4, <1>8, <1>9, <1>10, Columns
<1> QED
  BY <1>11 DEF Lifecycle!Refresh

\* The DELETE of a cleanup: the tests it leaves without a row expire.
LEMMA CleanupExpires ==
  ASSUME IInv, IInv', RunCleanup
  PROVE  \E S \in SUBSET TestIDs : Lifecycle!Expire(S)
<1> DEFINE S == {t \in TestIDs : ~Exists(reports', t)}
<1>1. reports' \subseteq reports /\ past' = past
  BY CleanupType DEF IInv
<1>2. reports \in SUBSET Row /\ UniqueRows(reports)
  BY InvTable
<1>3. reports' \in SUBSET Row /\ UniqueRows(reports')
  BY InvTableNext
<1>4. ASSUME NEW u \in TestIDs \ S
      PROVE  /\ MailIn(reports')[u] = MailIn(reports)[u]
             /\ ReportIn(reports')[u] = ReportIn(reports)[u]
             /\ (u \in YoungIn(reports')) <=> (u \in YoungIn(reports))
  <2>1. PICK row \in reports' : row.testID = u
    BY DEF Exists, Matching
  <2>2. /\ MailIn(reports')[u] = row.raw /\ ReportIn(reports')[u] = row.json
        /\ (u \in YoungIn(reports')) <=> (row.age =< Retention)
    BY <1>3, <2>1, ColumnsOfRow
  <2>3. /\ MailIn(reports)[u] = row.raw /\ ReportIn(reports)[u] = row.json
        /\ (u \in YoungIn(reports)) <=> (row.age =< Retention)
    BY <1>1, <1>2, <2>1, ColumnsOfRow
  <2> QED
    BY <2>2, <2>3
<1>5. MailOf' = [t \in TestIDs |-> IF t \in S THEN None ELSE MailOf[t]]
  BY <1>4, Columns DEF MailIn
<1>6. ReportOf' = [t \in TestIDs |-> IF t \in S THEN None ELSE ReportOf[t]]
  BY <1>4, Columns DEF ReportIn
<1>7. ~(Retention = 0)
  BY DEF RunCleanup, Cleaning
<1>8. ASSUME NEW u \in S
      PROVE  u \notin YoungIn(reports) /\ u \notin YoungIn(reports')
  <2>1. CASE \A row \in reports : row.testID # u
    BY <1>1, <2>1, ColumnsOfNoRow
  <2>2. ASSUME NEW row \in reports, row.testID = u
        PROVE  u \notin YoungIn(reports) /\ u \notin YoungIn(reports')
    <3>1. row \notin reports'
      BY <2>2 DEF Exists, Matching
    <3>2. ~(row.age =< Retention)
      BY <1>2, <3>1, RetentionAssumption DEF RunCleanup, Cleaning, DeleteOld, Older, Row, MaxAge
    <3>3. u \notin YoungIn(reports)
      BY <1>2, <2>2, <3>2, ColumnsOfRow
    <3>4. u \notin YoungIn(reports')
      BY DEF YoungIn
    <3> QED
      BY <3>3, <3>4
  <2> QED
    BY <2>1, <2>2
<1>9. YoungIn(reports') = YoungIn(reports)
  <2>1. \A u \in TestIDs : (u \in YoungIn(reports')) <=> (u \in YoungIn(reports))
    BY <1>4, <1>8
  <2> QED
    BY <2>1 DEF YoungIn
<1>10. S \cap Young = {} /\ Young' = Young
  BY <1>8, <1>9, Columns
<1>11. Lifecycle!Expire(S)
  BY <1>1, <1>5, <1>6, <1>7, <1>10 DEF Lifecycle!Expire
<1> QED
  BY <1>11

\* Of time only that it leaves reports behind is seen from above.
LEMMA TickOutlives ==
  ASSUME IInv, IInv', Tick
  PROVE  \E S \in SUBSET TestIDs : Lifecycle!Outlive(S)
<1>1. reports' = {Aged(row) : row \in reports} /\ past' = past
  BY DEF Tick, history
<1>2. reports \in SUBSET Row /\ UniqueRows(reports)
  BY InvTable
<1>3. reports' \in SUBSET Row /\ UniqueRows(reports')
  BY InvTableNext
<1>4. ASSUME NEW row \in reports
      PROVE  /\ MailIn(reports')[row.testID] = MailIn(reports)[row.testID]
             /\ ReportIn(reports')[row.testID] = ReportIn(reports)[row.testID]
             /\ row.testID \in YoungIn(reports') => row.testID \in YoungIn(reports)
  <2>1. /\ Aged(row) \in reports' /\ Aged(row).testID = row.testID
        /\ Aged(row).raw = row.raw /\ Aged(row).json = row.json
        /\ Aged(row).age =< Retention => row.age =< Retention
    <3>1. row \in Row /\ Aged(row) \in Row /\ Aged(row).age >= row.age
      BY <1>2, AgedRow
    <3>2. Aged(row).age =< Retention => row.age =< Retention
      BY <3>1, RetentionAssumption DEF Row, MaxAge
    <3> QED
      BY <1>1, <1>2, <3>2, AgedRow
  <2>2. /\ MailIn(reports')[Aged(row).testID] = Aged(row).raw
        /\ ReportIn(reports')[Aged(row).testID] = Aged(row).json
        /\ (Aged(row).testID \in YoungIn(reports')) <=> (Aged(row).age =< Retention)
    BY <1>3, <2>1, ColumnsOfRow
  <2>3. /\ MailIn(reports)[row.testID] = row.raw /\ ReportIn(reports)[row.testID] = row.json
        /\ (row.testID \in YoungIn(reports)) <=> (row.age =< Retention)
    BY <1>2, ColumnsOfRow
  <2> QED
    BY <2>1, <2>2, <2>3
<1>5. ASSUME NEW u \in TestIDs, \A row \in reports : row.testID # u
      PROVE  /\ MailIn(reports')[u] = MailIn(reports)[u]
             /\ ReportIn(reports')[u] = ReportIn(reports)[u]
             /\ u \notin YoungIn(reports')
  <2>1. \A row \in reports' : row.testID # u
    BY <1>1, <1>2, <1>5, AgedRow
  <2> QED
    BY <1>5, <2>1, ColumnsOfNoRow
<1>6. MailIn(reports') = MailIn(reports) /\ ReportIn(reports') = ReportIn(reports)
  <2>1. \A u \in TestIDs : /\ MailIn(reports')[u] = MailIn(reports)[u]
                           /\ ReportIn(reports')[u] = ReportIn(reports)[u]
    BY <1>4, <1>5
  <2> QED
    BY <2>1 DEF MailIn, ReportIn
<1>7. YoungIn(reports') \subseteq YoungIn(reports)
  BY <1>4, <1>5 DEF YoungIn
<1> DEFINE S == YoungIn(reports) \ YoungIn(reports')
<1>8. S \in SUBSET TestIDs
  BY DEF YoungIn
<1>9. Young' = Young \ S
  BY <1>7, Columns
<1>10. UNCHANGED <<MailOf, ReportOf, past>>
  BY <1>1, <1>6, Columns
<1>11. Lifecycle!Outlive(S)
  BY <1>9, <1>10 DEF Lifecycle!Outlive
<1> QED
  BY <1>8, <1>11

LEMMA RestStutters ==
  ASSUME Rest
  PROVE  UNCHANGED <<MailOf, ReportOf, past, Young>>
BY Columns DEF Rest

LEMMA InitRefines == Init => Lifecycle!Init
<1> SUFFICES ASSUME Init PROVE Lifecycle!Init
  OBVIOUS
<1>1. \A t \in TestIDs : ~Exists(reports, t)
  BY DEF Init, Exists, Matching
<1> QED
  BY <1>1 DEF Init, MailOf, ReportOf, Young, Lifecycle!Init

LEMMA NextRefines ==
  ASSUME IInv, IInv', [Next]_vars
  PROVE  [Lifecycle!Next]_(Lifecycle!vars)
<1>1. ASSUME NEW t \in TestIDs, NEW m \in Mails, NEW s \in Sources,
             ~Exists(reports, t), Publish(t, m, s)
      PROVE  Lifecycle!Next
  BY <1>1, PublishAccepts DEF Lifecycle!Next
<1>2. ASSUME NEW t \in TestIDs, NEW m \in Mails, NEW s \in Sources, Overwrite(t, m, s)
      PROVE  Lifecycle!Next
  BY <1>2, OverwriteRefreshes DEF Lifecycle!Next
<1>3. CASE RunCleanup
  BY <1>3, CleanupExpires DEF Lifecycle!Next
<1>4. CASE Tick
  BY <1>4, TickOutlives DEF Lifecycle!Next
<1>5. CASE Rest
  BY <1>5, RestStutters DEF Lifecycle!vars
<1>6. FramesOK /\ ReanalysisFromPast
  BY DEF IInv
<1> QED
  BY <1>1, <1>2, <1>3, <1>4, <1>5, <1>6, TableStep

\* For any number of tests, mails and goroutines, with crashes, failing
\* statements and any retention: the server keeps the promise of
\* ReportLifecycle.
THEOREM Implementation == Spec => ImplementsLifecycle
<1>1. Init => Lifecycle!Init
  BY InitRefines
<1>2. IInv /\ IInv' /\ [Next]_vars => [Lifecycle!Next]_(Lifecycle!vars)
  BY NextRefines
<1> QED
  BY <1>1, <1>2, Invariance, PTL DEF Spec, ImplementsLifecycle, Lifecycle!Spec
==============================================================================

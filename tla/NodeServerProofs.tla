--------------------------- MODULE NodeServerProofs ---------------------------
(***************************************************************************)
(* What the Node server promises, for any identifiers, seeds and uploads,  *)
(* empty ones included.  The three Maps are proved to keep their types     *)
(* first; what the handlers store next to each other then follows from     *)
(* what they store.                                                        *)
(***************************************************************************)
EXTENDS NodeServer, SequenceTheorems, FiniteSetTheorems, TLAPS

\* A report is filed under the test it names.
Keyed == \A id \in Ids : reports[id] # NoReport => reports[id].test = id

-----------------------------------------------------------------------------
(* Mails and what becomes of them.                                         *)

\* A mail the server writes itself: nothing of it is missing.
Complete(mail) == mail \in Mail /\ ~NoText(mail) /\ UploadSender(mail) = mail

LEMMA CompleteIsThere == \A mail : Complete(mail) => mail # NoMail /\ mail # EmptyFile
BY DEF Complete, NoText

LEMMA ExampleComplete == Complete(Sender(Example))
<1>1. Sender(Example) \in Mail
  BY DEF Mail, Sender, Example
<1>2. Sender(Example).from # NoMail.from /\ Sender(Example).from # EmptyFile.from
  BY DEF Sender, NoMail, EmptyFile
<1>3. ~NoText(Sender(Example))
  BY <1>2 DEF NoText
<1>4. UploadSender(Sender(Example)) = Sender(Example)
  <2>1. Sender(Example) # EmptyFile
    BY <1>2
  <2>2. QED
    BY <2>1 DEF UploadSender, Sender, Example
<1>5. QED
  BY <1>1, <1>3, <1>4 DEF Complete

LEMMA HostComplete == Complete(HostMail)
<1>1. Host # "none" /\ Host # "absent"
  BY ServerAssumption
<1>2. HostMail \in Mail
  BY DEF Mail, HostMail, Sender, Example
<1>3. HostMail.from # NoMail.from /\ HostMail.from # EmptyFile.from
  BY DEF HostMail, Sender, NoMail, EmptyFile
<1>4. ~NoText(HostMail)
  BY <1>3 DEF NoText
<1>5. UploadSender(HostMail) = HostMail
  <2>1. HostMail # EmptyFile
    BY <1>3
  <2>2. QED
    BY <1>1, <2>1 DEF UploadSender, HostMail, Sender, Example
<1>6. QED
  BY <1>2, <1>4, <1>5 DEF Complete

\* The seeds are among the identifiers, and each is dated before the server started.
LEMMA SeedsAre ==
  /\ Len(Seeds) \in Nat /\ DOMAIN Seeds = 1 .. Len(Seeds)
  /\ SeedSet \subseteq Ids
  /\ \A id \in SeedSet : SeedDate(id) \in Nat /\ SeedDate(id) < Len(Seeds)
<1>1. Seeds \in Seq(Ids)
  BY ServerAssumption
<1>2. Len(Seeds) \in Nat /\ DOMAIN Seeds = 1 .. Len(Seeds)
  BY <1>1
<1>3. SeedSet = {Seeds[k] : k \in DOMAIN Seeds}
  BY DEF SeedSet, Range
<1>4. SeedSet \subseteq Ids
  BY <1>1, <1>2, <1>3
<1>5. ASSUME NEW id \in SeedSet PROVE SeedDate(id) \in Nat /\ SeedDate(id) < Len(Seeds)
  <2>1. \E k \in DOMAIN Seeds : Seeds[k] = id
    BY <1>3
  <2> DEFINE p == CHOOSE k \in DOMAIN Seeds : Seeds[k] = id
  <2>2. p \in 1 .. Len(Seeds)
    BY <1>2, <2>1
  <2>3. SeedDate(id) = Len(Seeds) - p
    BY DEF SeedDate
  <2> HIDE DEF p
  <2>4. QED
    BY <1>2, <2>2, <2>3
<1>6. QED
  BY <1>2, <1>4, <1>5

LEMMA SeedComplete == \A id \in SeedSet : Complete(SeedMail(id))
<1>1. SUFFICES ASSUME NEW id \in SeedSet PROVE Complete(SeedMail(id))
  OBVIOUS
<1>2. id # "none" /\ id # "absent" /\ id # ""
  BY ServerAssumption, SeedsAre
<1>3. SeedMail(id) \in Mail
  BY DEF Mail, SeedMail
<1>4. SeedMail(id).from # NoMail.from /\ SeedMail(id).from # EmptyFile.from
  BY <1>2 DEF SeedMail, NoMail, EmptyFile
<1>5. ~NoText(SeedMail(id))
  BY <1>4 DEF NoText
<1>6. UploadSender(SeedMail(id)) = SeedMail(id)
  <2>1. SeedMail(id) # EmptyFile
    BY <1>4
  <2>2. QED
    BY <1>2, <2>1 DEF UploadSender, SeedMail
<1>7. QED
  BY <1>3, <1>5, <1>6 DEF Complete

LEMMA UploadKept == \A f \in Files : UploadSender(f) \in Mail /\ f \in Mail /\ f # NoMail
<1>1. SUFFICES ASSUME NEW f \in Files PROVE UploadSender(f) \in Mail /\ f \in Mail /\ f # NoMail
  OBVIOUS
<1>2. f.from # NoMail.from
  BY ServerAssumption DEF NoMail
<1>3. QED
  BY <1>2 DEF Mail

LEMMA ReportOK ==
  ASSUME NEW id \in Ids, NEW mail \in Mail, NEW source \in {"received", "uploaded"}
  PROVE  /\ SampleReport(id, mail, source) \in Report
         /\ SampleReport(id, mail, source) # NoReport
         /\ SampleReport(id, mail, source).test = id
         /\ SampleReport(id, mail, source).about = mail
         /\ SampleReport(id, mail, source).headers = NoMail
<1>1. SampleReport(id, mail, source).test # NoReport.test
  BY ServerAssumption DEF SampleReport, NoReport
<1>2. QED
  BY <1>1 DEF SampleReport, Report

\* The report of an upload repeats its header.
LEMMA UploadReportOK ==
  ASSUME NEW id \in Ids, NEW file \in Files
  PROVE  /\ UploadReport(id, file) \in Report
         /\ UploadReport(id, file) # NoReport
         /\ UploadReport(id, file).test = id
         /\ UploadReport(id, file).about = UploadSender(file)
         /\ UploadReport(id, file).headers = file
<1> DEFINE mail == UploadSender(file)
<1>1. mail \in Mail
  BY UploadKept
<1> HIDE DEF mail
<1>2. UploadReport(id, file) = [test |-> id, about |-> mail, source |-> "uploaded", score |-> 95,
                                headers |-> file]
  BY DEF UploadReport, SampleReport, mail
<1>3. UploadReport(id, file).test # NoReport.test
  <2>1. id # "absent"
    BY ServerAssumption
  <2>2. QED
    BY <1>2, <2>1 DEF NoReport
<1>4. QED
  BY <1>1, <1>2, <1>3 DEF Report, mail

LEMMA TestIsThere == \A t \in Test : t # NoTest
<1>1. SUFFICES ASSUME NEW t \in Test PROVE t # NoTest
  OBVIOUS
<1>2. t.status \in {"pending", "analyzed"}
  BY DEF Test
<1>3. QED
  BY <1>2 DEF NoTest

LEMMA SeedOK == \A id \in SeedSet : SeedTest(id) \in Test /\ SeedTest(id).status = "analyzed"
<1>1. SUFFICES ASSUME NEW id \in SeedSet
               PROVE SeedTest(id) \in Test /\ SeedTest(id).status = "analyzed"
  OBVIOUS
<1>2. id \in Ids /\ SeedMail(id) \in Mail /\ SeedDate(id) \in Nat
  BY SeedsAre, SeedComplete DEF Complete
<1>3. SeedTest(id).score \in 0 .. 100
  BY DEF SeedTest
<1>4. SeedTest(id).grade \in Letters /\ SeedTest(id).dmarc \in {"none", "pass", "neutral"}
  BY DEF SeedTest, Letters
<1>5. SeedTest(id).source \in {"none", "received", "uploaded"}
  BY DEF SeedTest
<1>6. QED
  BY <1>2, <1>3, <1>4, <1>5 DEF SeedTest, Test, MaxAge, AnalysisDelay

LEMMA PendingOK ==
  ASSUME NEW id \in Ids, NEW now \in Nat
  PROVE PendingTest(id, now) \in Test /\ PendingTest(id, now).status = "pending"
BY DEF PendingTest, Test, Letters, MaxAge, AnalysisDelay

LEMMA AnalyzedOK ==
  ASSUME NEW t \in Test
  PROVE AnalyzedTest(t) \in Test /\ AnalyzedTest(t).status = "analyzed"
<1>1. HostMail \in Mail
  BY HostComplete DEF Complete
<1>2. QED
  BY <1>1 DEF AnalyzedTest, Test, MaxAge, AnalysisDelay

LEMMA AgeOK ==
  ASSUME NEW t \in Test \cup {NoTest}
  PROVE /\ Age(t) \in Test \cup {NoTest}
        /\ Age(t) = NoTest <=> t = NoTest
        /\ t # NoTest => Age(t).status = t.status /\ Age(t).created = t.created
<1>1. CASE t = NoTest
  BY <1>1 DEF Age
<1>2. CASE t \in Test /\ ~(t.status = "pending" /\ t.age < MaxAge)
  BY <1>2, TestIsThere DEF Age
<1>3. CASE t \in Test /\ t.status = "pending" /\ t.age < MaxAge
  <2>1. t.age + 1 \in 0 .. MaxAge
    BY <1>3 DEF Test, MaxAge, AnalysisDelay
  <2>2. Age(t) = [id |-> t.id, status |-> t.status, created |-> t.created, age |-> t.age + 1,
                  score |-> t.score, grade |-> t.grade, dmarc |-> t.dmarc,
                  source |-> t.source, mail |-> t.mail]
    BY <1>3, TestIsThere DEF Age, Test
  <2>3. Age(t) \in Test
    BY <1>3, <2>1, <2>2 DEF Test
  <2>4. QED
    BY <1>3, <2>2, <2>3, TestIsThere
<1>4. QED
  BY <1>1, <1>2, <1>3

-----------------------------------------------------------------------------
(* The Maps keep their types.                                              *)

\* FileReport stores a report and a mail, whoever asks for it.
LEMMA FileOK ==
  ASSUME ServerTypeOK, NEW id \in Ids, NEW mail, Complete(mail), FileReport(id, mail, "received")
  PROVE /\ reports' \in [Ids -> Report \cup {NoReport}]
        /\ rawEmails' \in [Ids -> Mail \cup {NoMail}]
        /\ reports'[id] # NoReport /\ reports'[id].test = id /\ reports'[id].about = mail
        /\ reports'[id].headers = NoMail /\ rawEmails'[id] = mail
        /\ \A j \in Ids \ {id} : reports'[j] = reports[j] /\ rawEmails'[j] = rawEmails[j]
<1>1. mail \in Mail
  BY DEF Complete
<1>2. SampleReport(id, mail, "received") \in Report
  BY <1>1, ReportOK
<1>3. /\ SampleReport(id, mail, "received") # NoReport
      /\ SampleReport(id, mail, "received").test = id
      /\ SampleReport(id, mail, "received").about = mail
      /\ SampleReport(id, mail, "received").headers = NoMail
  BY <1>1, ReportOK
<1>4. QED
  BY <1>1, <1>2, <1>3 DEF FileReport, SampleMail, ServerTypeOK

LEMMA InitOK == ServerInit => ServerTypeOK
<1>1. SUFFICES ASSUME ServerInit PROVE ServerTypeOK
  OBVIOUS
<1>2. tests \in [Ids -> Test \cup {NoTest}]
  BY <1>1, SeedOK DEF ServerInit
<1>3. \A id \in SeedSet : SeedMail(id) \in Mail
  BY SeedComplete DEF Complete
<1>4. \A id \in SeedSet : SampleReport(id, SeedMail(id), "received") \in Report
  BY <1>3, ReportOK, SeedsAre
<1>5. order \in Seq(Ids)
  BY <1>1, ServerAssumption DEF ServerInit
<1>6. QED
  BY <1>1, <1>2, <1>3, <1>4, <1>5 DEF ServerInit, ServerTypeOK

LEMMA SetTestOK ==
  ASSUME ServerTypeOK, NEW id \in Ids, NEW t \in Test, SetTest(id, t)
  PROVE /\ tests' \in [Ids -> Test \cup {NoTest}]
        /\ order' \in Seq(Ids)
        /\ tests'[id] = t
        /\ \A j \in Ids \ {id} : tests'[j] = tests[j]
<1>1. order' \in Seq(Ids)
  BY AppendProperties DEF SetTest, Listed, ServerTypeOK
<1>2. QED
  BY <1>1 DEF SetTest, ServerTypeOK

LEMMA MomentOK == ASSUME ServerTypeOK, NEW now \in Moments PROVE now \in Nat
<1>1. Len(order) \in Nat
  BY DEF ServerTypeOK
<1>2. QED
  BY <1>1, SeedsAre DEF Moments

\* The entry GET /api/test/:id starts from.
LEMMA AskedOK ==
  ASSUME ServerTypeOK, NEW id \in Ids, NEW t \in Entries(id)
  PROVE /\ t \in Test
        /\ Known(id) => t = tests[id]
        /\ ~Known(id) => /\ t.status = "pending" /\ t.id = id
                         /\ t.created \in Moments
<1>1. CASE Known(id)
  BY <1>1 DEF Entries, Known, ServerTypeOK
<1>2. CASE ~Known(id)
  <2>1. PICK now \in Moments : t = PendingTest(id, now)
    BY <1>2 DEF Entries
  <2>2. t \in Test /\ t.status = "pending"
    BY <2>1, MomentOK, PendingOK
  <2>3. t.id = id /\ t.created = now
    BY <2>1 DEF PendingTest
  <2>4. QED
    BY <1>2, <2>2, <2>3
<1>3. QED
  BY <1>1, <1>2

\* The entry of an upload.
LEMMA UploadOK ==
  ASSUME NEW id \in Ids, NEW mail \in Mail, NEW now \in Nat
  PROVE UploadedTest(id, mail, now) \in Test
BY DEF UploadedTest, Test, Letters, MaxAge, AnalysisDelay

LEMMA MapsStep == ServerTypeOK /\ [ServerNext]_serverVars => ServerTypeOK'
<1>1. SUFFICES ASSUME ServerTypeOK, [ServerNext]_serverVars PROVE ServerTypeOK'
  OBVIOUS
<1>2. ASSUME NEW id \in Ids, CreateTest(id) PROVE ServerTypeOK'
  <2>1. PICK now \in Moments : SetTest(id, PendingTest(id, now))
    BY <1>2 DEF CreateTest
  <2>2. tests' \in [Ids -> Test \cup {NoTest}] /\ order' \in Seq(Ids)
    BY <1>1, <2>1, MomentOK, PendingOK, SetTestOK
  <2>3. QED
    BY <1>1, <1>2, <2>2 DEF CreateTest, ServerTypeOK
<1>3. ASSUME NEW id \in Ids, NEW file \in Files, UploadTest(id, file) PROVE ServerTypeOK'
  <2>1. UploadSender(file) \in Mail /\ file \in Mail
    BY UploadKept
  <2>2. UploadReport(id, file) \in Report
    BY UploadReportOK
  <2>3. PICK now \in Moments : SetTest(id, UploadedTest(id, UploadSender(file), now))
    BY <1>3 DEF UploadTest
  <2>4. tests' \in [Ids -> Test \cup {NoTest}] /\ order' \in Seq(Ids)
    BY <1>1, <2>1, <2>3, MomentOK, UploadOK, SetTestOK
  <2>5. QED
    BY <1>1, <1>3, <2>1, <2>2, <2>4 DEF UploadTest, ServerTypeOK
<1>4. ASSUME NEW id \in Ids, GetTest(id) PROVE ServerTypeOK'
  <2>0. PICK t \in Entries(id) :
          /\ SetTest(id, IF Ready(t) THEN AnalyzedTest(t) ELSE t)
          /\ IF Ready(t) THEN FileReport(id, HostMail, "received")
                         ELSE UNCHANGED <<reports, rawEmails>>
    BY <1>4 DEF GetTest
  <2>1. t \in Test
    BY <1>1, AskedOK
  <2>2. (IF Ready(t) THEN AnalyzedTest(t) ELSE t) \in Test
    BY <2>1, AnalyzedOK
  <2>4. tests' \in [Ids -> Test \cup {NoTest}] /\ order' \in Seq(Ids)
    BY <1>1, <2>0, <2>2, SetTestOK
  <2>5. CASE Ready(t)
    BY <1>1, <2>0, <2>4, <2>5, FileOK, HostComplete DEF ServerTypeOK
  <2>6. CASE ~Ready(t)
    BY <1>1, <2>0, <2>4, <2>6 DEF ServerTypeOK
  <2>7. QED
    BY <2>5, <2>6
<1>5. ASSUME NEW id \in Ids, GetReport(id) PROVE ServerTypeOK'
  <2>1. CASE reports[id] = NoReport
    BY <1>1, <1>5, <2>1, FileOK, ExampleComplete DEF GetReport, ServerTypeOK
  <2>2. CASE reports[id] # NoReport
    BY <1>1, <1>5, <2>2 DEF GetReport, ServerTypeOK
  <2>3. QED
    BY <2>1, <2>2
<1>6. ASSUME NEW id \in Ids, GetRaw(id) PROVE ServerTypeOK'
  <2>1. Sender(Example) \in Mail
    BY ExampleComplete DEF Complete
  <2>2. QED
    BY <1>1, <1>6, <2>1 DEF GetRaw, SampleMail, ServerTypeOK
<1>7. ASSUME NEW id \in Ids, Reanalyze(id) PROVE ServerTypeOK'
  BY <1>1, <1>7, FileOK, ExampleComplete DEF Reanalyze, ServerTypeOK
<1>8. CASE ServerSecond
  <2>1. \A id \in Ids : Age(tests[id]) \in Test \cup {NoTest}
    BY <1>1, AgeOK DEF ServerTypeOK
  <2>2. QED
    BY <1>1, <1>8, <2>1 DEF ServerSecond, ServerTypeOK
<1>9. CASE UNCHANGED serverVars
  BY <1>1, <1>9 DEF serverVars, ServerTypeOK
<1>10. QED
  BY <1>1, <1>2, <1>3, <1>4, <1>5, <1>6, <1>7, <1>8, <1>9 DEF ServerNext, ServerOp

\* The Maps of the server hold tests, reports and mails, and nothing else.
THEOREM MapsKept == ServerSpec => []ServerTypeOK
BY InitOK, MapsStep, PTL DEF ServerSpec

-----------------------------------------------------------------------------
(* Reports and raw emails.                                                 *)

\* What RawIsOfReport says of one report and the mail beside it.
Fits(report, raw) ==
  /\ raw # NoMail
  /\ \/ report.about = UploadSender(raw) /\ report.headers \in {NoMail, raw}
     \/ report.headers = EmptyFile /\ raw = SampleMail(Sender(Example))

\* The report beside an empty mail is that of the upload: no other report is ever
\* filed with a mail that a later request would replace.
EmptyIsUploaded ==
  \A id \in Ids : reports[id] # NoReport /\ rawEmails[id] = EmptyFile =>
    reports[id].headers = EmptyFile

FiledInv == Keyed /\ RawIsOfReport /\ EmptyIsUploaded

\* It is kept where the reports filed anew are as it says.
LEMMA FiledAnew ==
  ASSUME FiledInv,
         \A j \in Ids : reports'[j] # NoReport =>
           \/ reports'[j] = reports[j] /\ rawEmails'[j] = rawEmails[j]
           \/ /\ reports'[j].test = j
              /\ Fits(reports'[j], rawEmails'[j])
              /\ rawEmails'[j] = EmptyFile => reports'[j].headers = EmptyFile
  PROVE FiledInv'
<1>1. \A j \in Ids : reports[j] # NoReport => Fits(reports[j], rawEmails[j])
  BY DEF FiledInv, RawIsOfReport, Fits
<1>2. Keyed'
  BY DEF FiledInv, Keyed
<1>3. \A j \in Ids : reports'[j] # NoReport => Fits(reports'[j], rawEmails'[j])
  BY <1>1
<1>4. RawIsOfReport'
  BY <1>3 DEF RawIsOfReport, Fits
<1>5. EmptyIsUploaded'
  BY DEF FiledInv, EmptyIsUploaded
<1>6. QED
  BY <1>2, <1>4, <1>5 DEF FiledInv

\* What FileReport leaves behind keeps both halves.
LEMMA FiledByFile ==
  ASSUME ServerTypeOK, FiledInv, NEW id \in Ids, NEW mail, Complete(mail),
         FileReport(id, mail, "received")
  PROVE FiledInv'
<1>1. /\ reports'[id].test = id /\ reports'[id].about = mail
      /\ reports'[id].headers = NoMail /\ rawEmails'[id] = mail
      /\ \A j \in Ids \ {id} : reports'[j] = reports[j] /\ rawEmails'[j] = rawEmails[j]
  BY FileOK
<1>2. mail # NoMail /\ mail # EmptyFile /\ UploadSender(mail) = mail
  BY CompleteIsThere DEF Complete
<1>3. Fits(reports'[id], rawEmails'[id])
  BY <1>1, <1>2 DEF Fits
<1>4. QED
  BY <1>1, <1>2, <1>3, FiledAnew

LEMMA FiledInit == ServerInit => FiledInv
<1>1. SUFFICES ASSUME ServerInit PROVE FiledInv
  OBVIOUS
<1>2. ASSUME NEW id \in Ids, reports[id] # NoReport
      PROVE /\ reports[id].test = id /\ Fits(reports[id], rawEmails[id])
            /\ rawEmails[id] # EmptyFile
  <2>1. id \in SeedSet
    BY <1>1, <1>2 DEF ServerInit
  <2>2. Complete(SeedMail(id))
    BY <2>1, SeedComplete
  <2>3. reports[id] = SampleReport(id, SeedMail(id), "received") /\ rawEmails[id] = SeedMail(id)
    BY <1>1, <2>1 DEF ServerInit
  <2>4. /\ reports[id].test = id /\ reports[id].about = SeedMail(id)
        /\ reports[id].headers = NoMail
    BY <2>2, <2>3, ReportOK DEF Complete
  <2>5. SeedMail(id) # NoMail /\ SeedMail(id) # EmptyFile /\ UploadSender(SeedMail(id)) = SeedMail(id)
    BY <2>2, CompleteIsThere DEF Complete
  <2>6. QED
    BY <2>3, <2>4, <2>5 DEF Fits
<1>3. QED
  BY <1>2 DEF FiledInv, Keyed, RawIsOfReport, EmptyIsUploaded, Fits

LEMMA FiledStep == ServerTypeOK /\ FiledInv /\ [ServerNext]_serverVars => FiledInv'
<1>1. SUFFICES ASSUME ServerTypeOK, FiledInv, [ServerNext]_serverVars PROVE FiledInv'
  OBVIOUS
<1>2. ASSUME UNCHANGED <<reports, rawEmails>> PROVE FiledInv'
  BY <1>1, <1>2, FiledAnew
<1>3. ASSUME NEW id \in Ids, NEW file \in Files, UploadTest(id, file) PROVE FiledInv'
  <2>1. file # NoMail
    BY UploadKept
  <2>2. /\ UploadReport(id, file).test = id
        /\ UploadReport(id, file).about = UploadSender(file)
        /\ UploadReport(id, file).headers = file
    BY UploadReportOK
  <2>3. /\ reports'[id] = UploadReport(id, file) /\ rawEmails'[id] = file
        /\ \A j \in Ids \ {id} : reports'[j] = reports[j] /\ rawEmails'[j] = rawEmails[j]
    BY <1>1, <1>3 DEF UploadTest, ServerTypeOK
  <2>4. Fits(reports'[id], rawEmails'[id])
    BY <2>1, <2>2, <2>3 DEF Fits
  <2>5. QED
    BY <1>1, <2>2, <2>3, <2>4, FiledAnew
<1>4. ASSUME NEW id \in Ids, GetTest(id) PROVE FiledInv'
  <2>1. CASE FileReport(id, HostMail, "received")
    BY <1>1, <2>1, FiledByFile, HostComplete
  <2>2. CASE UNCHANGED <<reports, rawEmails>>
    BY <1>2, <2>2
  <2>3. QED
    BY <1>4, <2>1, <2>2 DEF GetTest
<1>5. ASSUME NEW id \in Ids, GetReport(id) PROVE FiledInv'
  <2>1. CASE reports[id] = NoReport
    BY <1>1, <1>5, <2>1, FiledByFile, ExampleComplete DEF GetReport
  <2>2. CASE reports[id] # NoReport
    BY <1>2, <1>5, <2>2 DEF GetReport
  <2>3. QED
    BY <2>1, <2>2
\* A mail is made up where there is no report, or beside that of an empty upload.
<1>6. ASSUME NEW id \in Ids, GetRaw(id) PROVE FiledInv'
  <2> DEFINE sample == SampleMail(Sender(Example))
  <2>1. CASE NoText(rawEmails[id])
    <3>1. /\ reports' = reports /\ rawEmails'[id] = sample
          /\ \A j \in Ids \ {id} : rawEmails'[j] = rawEmails[j]
      BY <1>1, <1>6, <2>1 DEF GetRaw, ServerTypeOK
    <3>2. sample # NoMail /\ sample # EmptyFile
      BY ExampleComplete, CompleteIsThere DEF SampleMail
    <3> HIDE DEF sample
    <3>3. ASSUME reports[id] # NoReport PROVE rawEmails[id] = EmptyFile
      BY <1>1, <2>1, <3>3 DEF FiledInv, RawIsOfReport, NoText
    <3>4. ASSUME reports[id] # NoReport
          PROVE reports[id].test = id /\ reports[id].headers = EmptyFile
      BY <1>1, <3>3, <3>4 DEF FiledInv, Keyed, EmptyIsUploaded
    <3>5. ASSUME reports'[id] # NoReport PROVE Fits(reports'[id], rawEmails'[id])
      BY <3>1, <3>2, <3>4, <3>5 DEF Fits, sample
    <3>6. QED
      BY <1>1, <3>1, <3>2, <3>4, <3>5, FiledAnew
  <2>2. CASE ~NoText(rawEmails[id])
    BY <1>2, <1>6, <2>2 DEF GetRaw
  <2>3. QED
    BY <2>1, <2>2
<1>7. ASSUME NEW id \in Ids, Reanalyze(id) PROVE FiledInv'
  BY <1>1, <1>7, FiledByFile, ExampleComplete DEF Reanalyze
<1>8. ASSUME NEW id \in Ids, CreateTest(id) PROVE FiledInv'
  BY <1>2, <1>8 DEF CreateTest
<1>9. CASE ServerSecond
  BY <1>2, <1>9 DEF ServerSecond
<1>10. CASE UNCHANGED serverVars
  BY <1>2, <1>10 DEF serverVars
<1>11. QED
  BY <1>1, <1>3, <1>4, <1>5, <1>6, <1>7, <1>8, <1>9, <1>10 DEF ServerNext, ServerOp

\* Every report is filed under the test it names, and the raw email kept next to it
\* is the mail it is about and repeats the header of: no order of creations, uploads,
\* polls, reanalyses and requests for what there is not separates the two.  Only the
\* report of an upload without content may stand beside the sample instead.
THEOREM ReportsFiled == ServerSpec => [](Keyed /\ RawIsOfReport)
<1>1. ServerInit => FiledInv
  BY FiledInit
<1>2. ServerTypeOK /\ FiledInv /\ [ServerNext]_serverVars => FiledInv'
  BY FiledStep
<1>3. FiledInv => Keyed /\ RawIsOfReport
  BY DEF FiledInv
<1>4. QED
  BY <1>1, <1>2, <1>3, MapsKept, PTL DEF ServerSpec

-----------------------------------------------------------------------------
(* Tests and their reports.                                                *)

\* No handler removes a report or a raw email.
LEMMA NothingGoes ==
  ASSUME ServerTypeOK, [ServerNext]_serverVars, NEW k \in Ids
  PROVE /\ reports[k] # NoReport => reports'[k] # NoReport
        /\ rawEmails[k] # NoMail => rawEmails'[k] # NoMail
<1>0. ASSUME UNCHANGED <<reports, rawEmails>>
      PROVE /\ reports[k] # NoReport => reports'[k] # NoReport
            /\ rawEmails[k] # NoMail => rawEmails'[k] # NoMail
  BY <1>0
<1>1. ASSUME NEW id \in Ids, NEW mail, Complete(mail), FileReport(id, mail, "received")
      PROVE /\ reports[k] # NoReport => reports'[k] # NoReport
            /\ rawEmails[k] # NoMail => rawEmails'[k] # NoMail
  <2>1. /\ reports'[id] # NoReport /\ rawEmails'[id] = mail
        /\ \A j \in Ids \ {id} : reports'[j] = reports[j] /\ rawEmails'[j] = rawEmails[j]
    BY <1>1, FileOK
  <2>2. mail # NoMail
    BY <1>1, CompleteIsThere
  <2>3. QED
    BY <2>1, <2>2
<1>2. ASSUME NEW id \in Ids, NEW file \in Files, UploadTest(id, file)
      PROVE /\ reports[k] # NoReport => reports'[k] # NoReport
            /\ rawEmails[k] # NoMail => rawEmails'[k] # NoMail
  <2>1. file # NoMail
    BY UploadKept
  <2>2. UploadReport(id, file) # NoReport
    BY UploadReportOK
  <2>3. QED
    BY <1>2, <2>1, <2>2 DEF UploadTest, ServerTypeOK
<1>3. ASSUME NEW id \in Ids, GetTest(id)
      PROVE /\ reports[k] # NoReport => reports'[k] # NoReport
            /\ rawEmails[k] # NoMail => rawEmails'[k] # NoMail
  BY <1>0, <1>1, <1>3, HostComplete DEF GetTest
<1>4. ASSUME NEW id \in Ids, GetReport(id)
      PROVE /\ reports[k] # NoReport => reports'[k] # NoReport
            /\ rawEmails[k] # NoMail => rawEmails'[k] # NoMail
  BY <1>0, <1>1, <1>4, ExampleComplete DEF GetReport
<1>5. ASSUME NEW id \in Ids, GetRaw(id)
      PROVE /\ reports[k] # NoReport => reports'[k] # NoReport
            /\ rawEmails[k] # NoMail => rawEmails'[k] # NoMail
  BY <1>5, ExampleComplete, CompleteIsThere DEF GetRaw, SampleMail, ServerTypeOK
<1>6. ASSUME NEW id \in Ids, Reanalyze(id)
      PROVE /\ reports[k] # NoReport => reports'[k] # NoReport
            /\ rawEmails[k] # NoMail => rawEmails'[k] # NoMail
  BY <1>1, <1>6, ExampleComplete DEF Reanalyze
<1>7. QED
  BY <1>0, <1>2, <1>3, <1>4, <1>5, <1>6
     DEF ServerNext, ServerOp, CreateTest, ServerSecond, serverVars

\* Every test told to be analyzed has its report and its raw email, whoever
\* asked for what first.
THEOREM AnalyzedFiled == ServerSpec => []AnalyzedIsFiled
<1>1. ASSUME ServerInit PROVE AnalyzedIsFiled
  <2>1. ASSUME NEW id \in Ids, Known(id) PROVE reports[id] # NoReport /\ rawEmails[id] # NoMail
    <3>1. id \in SeedSet
      BY <1>1, <2>1 DEF ServerInit, Known
    <3>2. Complete(SeedMail(id))
      BY <3>1, SeedComplete
    <3>3. SampleReport(id, SeedMail(id), "received") # NoReport
      BY <3>2, ReportOK DEF Complete
    <3>4. QED
      BY <1>1, <3>1, <3>2, <3>3, CompleteIsThere DEF ServerInit
  <2>2. QED
    BY <2>1 DEF AnalyzedIsFiled
<1>2. ASSUME ServerTypeOK, AnalyzedIsFiled, [ServerNext]_serverVars PROVE AnalyzedIsFiled'
  <2>1. SUFFICES ASSUME NEW k \in Ids, tests'[k] # NoTest, tests'[k].status = "analyzed"
                 PROVE reports'[k] # NoReport /\ rawEmails'[k] # NoMail
    BY DEF AnalyzedIsFiled, Known
  \* A test that was analyzed before the step.
  <2>2. CASE tests[k] # NoTest /\ tests[k].status = "analyzed"
    BY <1>2, <2>2, NothingGoes DEF AnalyzedIsFiled, Known
  \* A test the step completes.
  <2>3. ASSUME NEW id \in Ids, NEW t \in Test, SetTest(id, t),
               t.status = "analyzed" => id # k
        PROVE tests[k] # NoTest /\ tests[k].status = "analyzed"
    <3>1. tests'[id] = t /\ \A j \in Ids \ {id} : tests'[j] = tests[j]
      BY <1>2, <2>3, SetTestOK
    <3>2. QED
      BY <2>1, <2>3, <3>1
  <2>4. ASSUME NEW id \in Ids, CreateTest(id) PROVE tests[k] # NoTest /\ tests[k].status = "analyzed"
    BY <1>2, <2>3, <2>4, MomentOK, PendingOK DEF CreateTest
  <2>5. ASSUME NEW id \in Ids, NEW file \in Files, UploadTest(id, file)
        PROVE \/ tests[k] # NoTest /\ tests[k].status = "analyzed"
              \/ reports'[k] # NoReport /\ rawEmails'[k] # NoMail
    <3>1. UploadSender(file) \in Mail /\ file # NoMail
      BY UploadKept
    <3>2. CASE id = k
      <4>1. UploadReport(id, file) # NoReport
        BY UploadReportOK
      <4>2. QED
        BY <1>2, <2>5, <3>1, <3>2, <4>1 DEF UploadTest, ServerTypeOK
    <3>3. CASE id # k
      BY <1>2, <2>3, <2>5, <3>1, <3>3, MomentOK, UploadOK DEF UploadTest
    <3>4. QED
      BY <3>2, <3>3
  <2>6. ASSUME NEW id \in Ids, GetTest(id)
        PROVE \/ tests[k] # NoTest /\ tests[k].status = "analyzed"
              \/ reports'[k] # NoReport /\ rawEmails'[k] # NoMail
    <3>0. PICK t \in Entries(id) :
            /\ SetTest(id, IF Ready(t) THEN AnalyzedTest(t) ELSE t)
            /\ IF Ready(t) THEN FileReport(id, HostMail, "received")
                           ELSE UNCHANGED <<reports, rawEmails>>
      BY <2>6 DEF GetTest
    <3>1. t \in Test /\ (Known(id) => t = tests[id]) /\ (~Known(id) => t.status = "pending")
      BY <1>2, AskedOK
    <3>2. CASE Ready(t)
      <4>1. AnalyzedTest(t) \in Test /\ SetTest(id, AnalyzedTest(t))
        BY <3>0, <3>1, <3>2, AnalyzedOK
      <4>2. FileReport(id, HostMail, "received")
        BY <3>0, <3>2
      <4>3. reports'[id] # NoReport /\ rawEmails'[id] # NoMail
        BY <1>2, <4>2, FileOK, HostComplete, CompleteIsThere
      <4>4. CASE id # k
        BY <2>3, <4>1, <4>4
      <4>5. QED
        BY <4>3, <4>4
    <3>3. CASE ~Ready(t)
      <4>1. SetTest(id, t)
        BY <3>0, <3>3
      <4>2. CASE id # k
        BY <2>3, <3>1, <4>1, <4>2
      <4>3. CASE id = k
        <5>1. tests'[k] = t
          BY <1>2, <3>1, <4>1, <4>3, SetTestOK
        <5>2. Known(id)
          BY <2>1, <3>1, <5>1
        <5>3. QED
          BY <2>1, <3>1, <4>3, <5>1, <5>2 DEF Known
      <4>4. QED
        BY <4>2, <4>3
    <3>4. QED
      BY <3>2, <3>3
  <2>7. CASE ServerSecond
    <3>1. tests'[k] = Age(tests[k]) /\ tests[k] \in Test \cup {NoTest}
      BY <1>2, <2>7 DEF ServerSecond, ServerTypeOK
    <3>2. tests[k] # NoTest /\ tests[k].status = "analyzed"
      BY <2>1, <3>1, AgeOK
    <3>3. QED
      BY <2>2, <3>2
  <2>8. CASE tests' = tests
    BY <2>1, <2>2, <2>8
  <2>9. QED
    BY <1>2, <2>2, <2>4, <2>5, <2>6, <2>7, <2>8
       DEF ServerNext, ServerOp, GetReport, GetRaw, Reanalyze, serverVars
<1>3. QED
  BY <1>1, <1>2, MapsKept, PTL DEF ServerSpec

-----------------------------------------------------------------------------
(* The list of tests.                                                      *)

\* The keys of the Map tests, each once, and every test under its own.
KeysOK ==
  /\ order \in Seq(Ids)
  /\ \A m, n \in DOMAIN order : order[m] = order[n] => m = n
  /\ \A id \in Ids : Known(id) <=> \E n \in DOMAIN order : order[n] = id
  /\ \A id \in Ids : Known(id) => tests[id].id = id

LEMMA KeysInit == ServerInit => KeysOK
<1>1. SUFFICES ASSUME ServerInit PROVE KeysOK
  OBVIOUS
<1>2. /\ \A m, n \in DOMAIN order : order[m] = order[n] => m = n
      /\ \A id \in SeedSet : \E n \in DOMAIN order : order[n] = id
  BY <1>1, ServerAssumption DEF ServerInit, SeedSet, Range
<1>3. order \in Seq(Ids)
  BY <1>1, ServerAssumption DEF ServerInit
<1>4. \A n \in DOMAIN order : order[n] \in SeedSet
  BY <1>1 DEF ServerInit, SeedSet, Range
<1>5. \A id \in Ids : Known(id) <=> id \in SeedSet
  BY <1>1, SeedOK, TestIsThere DEF ServerInit, Known
<1>6. \A id \in SeedSet : tests[id].id = id
  BY <1>1, SeedsAre DEF ServerInit, SeedTest
<1>7. QED
  BY <1>2, <1>3, <1>4, <1>5, <1>6 DEF KeysOK

\* Setting a test adds its key at the end, unless it is there.
LEMMA KeysSet ==
  ASSUME ServerTypeOK, KeysOK, NEW id \in Ids, NEW t \in Test, t.id = id, SetTest(id, t)
  PROVE KeysOK'
<1>1. tests'[id] = t /\ \A j \in Ids \ {id} : tests'[j] = tests[j]
  BY SetTestOK
<1>2. t # NoTest
  BY TestIsThere
<1>3. \A j \in Ids : tests'[j] # NoTest <=> (Known(j) \/ j = id)
  BY <1>1, <1>2 DEF Known
<1>4. \A j \in Ids : tests'[j] # NoTest => tests'[j].id = j
  BY <1>1, <1>3 DEF KeysOK, Known
<1>5. CASE Known(id)
  <2>1. order' = order
    BY <1>5 DEF SetTest, Listed
  <2>2. QED
    BY <1>3, <1>4, <1>5, <2>1 DEF KeysOK, Known
<1>6. CASE ~Known(id)
  <2>1. order' = Append(order, id)
    BY <1>6 DEF SetTest, Listed
  <2>2. order \in Seq(Ids)
    BY DEF KeysOK
  <2>3. /\ order' \in Seq(Ids) /\ Len(order') = Len(order) + 1
        /\ \A n \in 1 .. Len(order) : order'[n] = order[n]
        /\ order'[Len(order) + 1] = id
    BY <2>1, <2>2, AppendProperties
  <2>4. \A n \in 1 .. Len(order) : order[n] # id
    BY <1>6, <2>2 DEF KeysOK
  <2>5. \A m, n \in 1 .. Len(order) : order[m] = order[n] => m = n
    BY <2>2 DEF KeysOK
  <2>6. /\ Len(order) \in Nat /\ DOMAIN order = 1 .. Len(order)
        /\ DOMAIN order' = 1 .. Len(order) + 1
    BY <2>2, <2>3
  <2>7. \A m, n \in DOMAIN order' : order'[m] = order'[n] => m = n
    BY <2>3, <2>4, <2>5, <2>6
  <2>8. ASSUME NEW j \in Ids PROVE tests'[j] # NoTest <=> \E n \in DOMAIN order' : order'[n] = j
    <3>1. Known(j) <=> \E n \in 1 .. Len(order) : order[n] = j
      BY <2>6 DEF KeysOK
    <3>2. (\E n \in DOMAIN order' : order'[n] = j)
            <=> (\E n \in 1 .. Len(order) : order[n] = j) \/ j = id
      BY <2>3, <2>6
    <3>3. QED
      BY <1>3, <3>1, <3>2
  <2>9. QED
    BY <1>4, <2>3, <2>7, <2>8 DEF KeysOK, Known
<1>7. QED
  BY <1>5, <1>6

LEMMA KeysStep == ServerTypeOK /\ KeysOK /\ [ServerNext]_serverVars => KeysOK'
<1>1. SUFFICES ASSUME ServerTypeOK, KeysOK, [ServerNext]_serverVars PROVE KeysOK'
  OBVIOUS
<1>2. ASSUME UNCHANGED <<tests, order>> PROVE KeysOK'
  BY <1>1, <1>2 DEF KeysOK, Known
<1>3. ASSUME NEW id \in Ids, CreateTest(id) PROVE KeysOK'
  <2>1. PICK now \in Moments : SetTest(id, PendingTest(id, now))
    BY <1>3 DEF CreateTest
  <2>2. PendingTest(id, now) \in Test /\ PendingTest(id, now).id = id
    BY <1>1, MomentOK, PendingOK DEF PendingTest
  <2>3. QED
    BY <1>1, <2>1, <2>2, KeysSet
<1>4. ASSUME NEW id \in Ids, NEW file \in Files, UploadTest(id, file) PROVE KeysOK'
  <2> DEFINE t(now) == UploadedTest(id, UploadSender(file), now)
  <2>1. PICK now \in Moments : SetTest(id, t(now))
    BY <1>4 DEF UploadTest
  <2>2. t(now) \in Test
    BY <1>1, UploadKept, MomentOK, UploadOK
  <2>3. t(now).id = id
    BY DEF UploadedTest
  <2> HIDE DEF t
  <2>4. QED
    BY <1>1, <2>1, <2>2, <2>3, KeysSet
<1>5. ASSUME NEW id \in Ids, GetTest(id) PROVE KeysOK'
  <2>1. PICK t \in Entries(id) : SetTest(id, IF Ready(t) THEN AnalyzedTest(t) ELSE t)
    BY <1>5 DEF GetTest
  <2> DEFINE u == IF Ready(t) THEN AnalyzedTest(t) ELSE t
  <2>2. t \in Test /\ t.id = id
    BY <1>1, AskedOK DEF KeysOK
  <2>3. u \in Test /\ u.id = id
    BY <2>2, AnalyzedOK DEF AnalyzedTest
  <2>4. QED
    BY <1>1, <2>1, <2>3, KeysSet
<1>6. CASE ServerSecond
  <2>1. order' = order /\ \A id \in Ids : tests'[id] = Age(tests[id])
    BY <1>6 DEF ServerSecond
  <2>2. ASSUME NEW id \in Ids
        PROVE /\ tests'[id] # NoTest <=> Known(id)
              /\ Known(id) => tests'[id].id = tests[id].id
    <3>1. tests[id] \in Test \cup {NoTest}
      BY <1>1 DEF ServerTypeOK
    <3>2. Age(tests[id]) = NoTest <=> tests[id] = NoTest
      BY <3>1, AgeOK
    <3>3. tests[id] \in Test => Age(tests[id]).id = tests[id].id
      BY DEF Age, Test
    <3>4. QED
      BY <2>1, <3>1, <3>2, <3>3 DEF Known
  <2>3. QED
    BY <1>1, <2>1, <2>2 DEF KeysOK, Known
<1>7. QED
  BY <1>1, <1>2, <1>3, <1>4, <1>5, <1>6
     DEF ServerNext, ServerOp, GetReport, GetRaw, Reanalyze, serverVars

-----------------------------------------------------------------------------
(* The dates of the tests.                                                 *)

\* The seeds stay, dated before the server started and in the opposite order of the
\* list; every test made since comes after them, in the order of the list.
InOrder(a, b) ==
  IF b \in SeedSet THEN a \in SeedSet /\ tests[b].created < tests[a].created
  ELSE a \in SeedSet \/ tests[a].created <= tests[b].created
Dated ==
  /\ \A id \in SeedSet : Known(id)
  /\ \A id \in Ids : Known(id) => (tests[id].created < Len(Seeds) <=> id \in SeedSet)
  /\ \A m, n \in DOMAIN order : m < n => InOrder(order[m], order[n])

LEMMA DatesInit == ServerInit => Dated
<1>1. SUFFICES ASSUME ServerInit PROVE Dated
  OBVIOUS
<1>2. order = Seeds /\ \A n \in DOMAIN Seeds : Seeds[n] \in SeedSet
  BY <1>1 DEF ServerInit, SeedSet, Range
<1>3. \A id \in Ids : Known(id) <=> id \in SeedSet
  BY <1>1, SeedOK, TestIsThere DEF ServerInit, Known
<1>4. \A id \in SeedSet : tests[id].created = SeedDate(id)
  BY <1>1, SeedsAre DEF ServerInit, SeedTest
<1>5. \A id \in SeedSet : tests[id].created < Len(Seeds)
  BY <1>4, SeedsAre
<1>6. ASSUME NEW m \in DOMAIN Seeds, NEW n \in DOMAIN Seeds, m < n
      PROVE tests[Seeds[n]].created < tests[Seeds[m]].created
  <2>1. ASSUME NEW k \in DOMAIN Seeds PROVE SeedDate(Seeds[k]) = Len(Seeds) - k
    BY <2>1, ServerAssumption DEF SeedDate
  <2>2. tests[Seeds[m]].created = Len(Seeds) - m /\ tests[Seeds[n]].created = Len(Seeds) - n
    BY <1>2, <1>4, <2>1
  <2>3. m \in Int /\ n \in Int /\ Len(Seeds) \in Nat
    BY SeedsAre
  <2>4. QED
    BY <1>6, <2>2, <2>3
<1>7. QED
  BY <1>2, <1>3, <1>5, <1>6, SeedsAre DEF Dated, InOrder

\* A test keeps its date, and a new one is the latest.
LEMMA DatesSet ==
  ASSUME ServerTypeOK, KeysOK, Dated, NEW id \in Ids, NEW t \in Test, SetTest(id, t),
         Known(id) => t.created = tests[id].created,
         ~Known(id) => t.created \in Moments
  PROVE Dated'
<1>1. tests'[id] = t /\ \A j \in Ids \ {id} : tests'[j] = tests[j]
  BY SetTestOK
<1>2. t # NoTest
  BY TestIsThere
<1>3. \A j \in Ids : tests'[j] # NoTest <=> (Known(j) \/ j = id)
  BY <1>1, <1>2 DEF Known
<1>4. SeedSet \subseteq Ids /\ \A j \in SeedSet : Known(j)
  BY SeedsAre DEF Dated
<1>5. order \in Seq(Ids) /\ Len(order) \in Nat /\ DOMAIN order = 1 .. Len(order)
  BY DEF KeysOK
<1>6. \A n \in DOMAIN order : order[n] \in Ids /\ Known(order[n])
  BY <1>5 DEF KeysOK
<1>7. \A j \in Ids : Known(j) => tests'[j].created = tests[j].created
  BY <1>1
<1>8. \A j \in SeedSet : tests'[j] # NoTest
  BY <1>3, <1>4
<1>9. CASE Known(id)
  <2>1. order' = order
    BY <1>9 DEF SetTest, Listed
  <2>2. \A j \in Ids : tests'[j] # NoTest <=> Known(j)
    BY <1>3, <1>9
  <2>3. \A m, n \in DOMAIN order' : m < n => InOrder(order[m], order[n])'
    BY <1>6, <1>7, <2>1 DEF Dated, InOrder
  <2>4. QED
    BY <1>7, <1>8, <2>2, <2>3 DEF Dated, Known
<1>10. CASE ~Known(id)
  <2>1. /\ order' \in Seq(Ids) /\ Len(order') = Len(order) + 1
        /\ \A n \in 1 .. Len(order) : order'[n] = order[n]
        /\ order'[Len(order) + 1] = id
    BY <1>5, <1>10, AppendProperties DEF SetTest, Listed
  <2>2. id \notin SeedSet
    BY <1>4, <1>10
  <2>3. /\ t.created >= Len(Seeds)
        /\ \A j \in Ids : Known(j) => tests[j].created <= t.created
    BY <1>5, <1>10, SeedsAre DEF Moments
  <2>4. \A j \in Ids : tests'[j] # NoTest =>
          (tests'[j].created < Len(Seeds) <=> j \in SeedSet)
    <3>1. t.created \in Nat
      BY DEF Test
    <3>2. tests'[id].created < Len(Seeds) <=> id \in SeedSet
      BY <1>1, <2>2, <2>3, <3>1, SeedsAre
    <3>3. QED
      BY <1>3, <1>7, <3>2 DEF Dated
  <2>5. ASSUME NEW m \in DOMAIN order', NEW n \in DOMAIN order', m < n
        PROVE InOrder(order[m], order[n])'
    <3>1. m \in DOMAIN order /\ order'[m] = order[m]
      BY <1>5, <2>1, <2>5
    <3>2. Known(order[m]) /\ order[m] \in Ids /\ tests'[order'[m]].created = tests[order[m]].created
      BY <1>6, <1>7, <3>1
    <3>3. CASE n = Len(order) + 1
      BY <1>1, <2>1, <2>2, <2>3, <3>2, <3>3 DEF InOrder
    <3>4. CASE n \in DOMAIN order
      <4>1. order'[n] = order[n] /\ tests'[order'[n]].created = tests[order[n]].created
        BY <1>5, <1>6, <1>7, <2>1, <3>4
      <4>2. InOrder(order[m], order[n])
        BY <2>5, <3>1, <3>4 DEF Dated
      <4>3. QED
        BY <3>1, <3>2, <4>1, <4>2 DEF InOrder
    <3>5. QED
      BY <1>5, <2>1, <3>3, <3>4
  <2>6. QED
    BY <1>8, <2>4, <2>5 DEF Dated, Known
<1>11. QED
  BY <1>9, <1>10

LEMMA DatesStep == ServerTypeOK /\ KeysOK /\ Dated /\ [ServerNext]_serverVars => Dated'
<1>1. SUFFICES ASSUME ServerTypeOK, KeysOK, Dated, [ServerNext]_serverVars PROVE Dated'
  OBVIOUS
<1>2. ASSUME UNCHANGED <<tests, order>> PROVE Dated'
  BY <1>1, <1>2 DEF Dated, InOrder, Known
<1>3. ASSUME NEW id \in Ids, CreateTest(id) PROVE Dated'
  <2>1. ~Known(id) /\ \E now \in Moments : SetTest(id, PendingTest(id, now))
    BY <1>3 DEF CreateTest
  <2>2. PICK now \in Moments : SetTest(id, PendingTest(id, now))
    BY <2>1
  <2>3. PendingTest(id, now) \in Test /\ PendingTest(id, now).created = now
    BY <1>1, MomentOK, PendingOK DEF PendingTest
  <2>4. QED
    BY <1>1, <2>1, <2>2, <2>3, DatesSet
<1>4. ASSUME NEW id \in Ids, NEW file \in Files, UploadTest(id, file) PROVE Dated'
  <2> DEFINE t(now) == UploadedTest(id, UploadSender(file), now)
  <2>1. ~Known(id) /\ \E now \in Moments : SetTest(id, t(now))
    BY <1>4 DEF UploadTest
  <2>2. PICK now \in Moments : SetTest(id, t(now))
    BY <2>1
  <2>3. t(now) \in Test
    BY <1>1, UploadKept, MomentOK, UploadOK
  <2>4. t(now).created = now
    BY DEF UploadedTest
  <2> HIDE DEF t
  <2>5. QED
    BY <1>1, <2>1, <2>2, <2>3, <2>4, DatesSet
<1>5. ASSUME NEW id \in Ids, GetTest(id) PROVE Dated'
  <2>1. PICK t \in Entries(id) : SetTest(id, IF Ready(t) THEN AnalyzedTest(t) ELSE t)
    BY <1>5 DEF GetTest
  <2> DEFINE u == IF Ready(t) THEN AnalyzedTest(t) ELSE t
  <2>2. /\ t \in Test
        /\ Known(id) => t.created = tests[id].created
        /\ ~Known(id) => t.created \in Moments
    BY <1>1, AskedOK
  <2>3. u \in Test /\ u.created = t.created
    BY <2>2, AnalyzedOK DEF AnalyzedTest
  <2> HIDE DEF u
  <2>4. SetTest(id, u)
    BY <2>1 DEF u
  <2>5. QED
    BY <1>1, <2>2, <2>3, <2>4, DatesSet
<1>6. CASE ServerSecond
  <2>1. order' = order /\ \A id \in Ids : tests'[id] = Age(tests[id])
    BY <1>6 DEF ServerSecond
  <2>2. \A id \in Ids : /\ tests'[id] # NoTest <=> Known(id)
                        /\ Known(id) => tests'[id].created = tests[id].created
    BY <1>1, <2>1, AgeOK DEF ServerTypeOK, Known
  <2>3. \A n \in DOMAIN order : order[n] \in Ids /\ Known(order[n])
    BY <1>1 DEF KeysOK
  <2>4. QED
    BY <1>1, <2>1, <2>2, <2>3, SeedsAre DEF Dated, InOrder, Known
<1>7. QED
  BY <1>1, <1>2, <1>3, <1>4, <1>5, <1>6
     DEF ServerNext, ServerOp, GetReport, GetRaw, Reanalyze, serverVars

\* The keys of the Map are listed once each, in the order they were first set,
\* every test is kept under its own identifier, and the dates run with the list but
\* for the seeds, where they run against it.
THEOREM KeysKept == ServerSpec => [](ServerTypeOK /\ KeysOK /\ Dated)
BY KeysInit, KeysStep, DatesInit, DatesStep, MapsKept, PTL DEF ServerSpec

-----------------------------------------------------------------------------
(* The pages of the list.                                                  *)

\* The rows of the list, by the key of each.
LEMMA RowsOK ==
  ASSUME KeysOK
  PROVE /\ Len(order) \in Nat /\ DOMAIN order = 1 .. Len(order)
        /\ Rows \in [1 .. Len(order) -> {Summary(tests[id]) : id \in Ids}]
        /\ Len(Rows) = Len(order)
        /\ \A i \in 1 .. Len(order) :
             /\ order[Len(order) - i + 1] \in Ids
             /\ Rows[i] = Summary(tests[order[Len(order) - i + 1]])
             /\ Rows[i].id = order[Len(order) - i + 1]
<1>1. order \in Seq(Ids)
  BY DEF KeysOK
<1>2. Len(order) \in Nat /\ DOMAIN order = 1 .. Len(order)
  BY <1>1
<1>3. ASSUME NEW i \in 1 .. Len(order)
      PROVE /\ Reverse(order)[i] = order[Len(order) - i + 1]
            /\ Len(order) - i + 1 \in DOMAIN order
            /\ order[Len(order) - i + 1] \in Ids
  BY <1>1, <1>2 DEF Reverse
<1>4. Rows = [i \in 1 .. Len(order) |-> Summary(tests[Reverse(order)[i]])]
  BY <1>2 DEF Rows
<1>5. ASSUME NEW i \in 1 .. Len(order)
      PROVE /\ Rows[i] = Summary(tests[order[Len(order) - i + 1]])
            /\ Rows[i].id = order[Len(order) - i + 1]
  <2>1. Rows[i] = Summary(tests[order[Len(order) - i + 1]])
    BY <1>3, <1>4
  <2>2. tests[order[Len(order) - i + 1]].id = order[Len(order) - i + 1]
    BY <1>3 DEF KeysOK
  <2>3. QED
    BY <2>1, <2>2 DEF Summary
<1>6. Rows \in [1 .. Len(order) -> {Summary(tests[id]) : id \in Ids}]
  BY <1>3, <1>4, <1>5
<1>7. Len(Rows) = Len(order)
  BY <1>2, <1>4
<1>8. QED
  BY <1>2, <1>3, <1>5, <1>6, <1>7

LEMMA SubSeqIs ==
  ASSUME NEW S, NEW s, NEW m \in Int, NEW n \in Int, \A i \in m .. n : s[i] \in S
  PROVE SubSeq(s, m, n) = [i \in 1 .. n - m + 1 |-> s[m + i - 1]]
<1> DEFINE t == SubSeq(s, m, n)
<1>1. t \in Seq(S)
  BY SubSeqProperties
<1>2. Len(t) = IF m <= n THEN n - m + 1 ELSE 0
  BY SubSeqProperties
<1>3. \A i \in 1 .. n - m + 1 : t[i] = s[m + i - 1]
  BY SubSeqProperties
<1> HIDE DEF t
<1>4. t \in [1 .. n - m + 1 -> S]
  BY <1>1, <1>2
<1>5. QED
  BY <1>3, <1>4 DEF t

\* The i-th row of the page k is a row of the list, i places after k whole pages.
LEMMA PageRows ==
  ASSUME KeysOK, NEW limit \in 1 .. MaxLimit, NEW k \in Nat
  PROVE LET page == ListPage(k * limit, limit).rows IN
        /\ DOMAIN page = {i \in 1 .. limit : k * limit + i <= Len(order)}
        /\ \A i \in DOMAIN page : page[i] = Rows[k * limit + i]
<1> DEFINE first == k * limit + 1
           most  == k * limit + limit
           last  == IF most > Len(Rows) THEN Len(Rows) ELSE most
<1>1. k * limit \in Nat /\ limit \in Nat
  BY DEF MaxLimit
<1>2. ~(limit > MaxLimit)
  BY DEF MaxLimit
<1>3. Len(Rows) = Len(order) /\ Len(order) \in Nat
  BY RowsOK
<1>4. ListPage(k * limit, limit).rows = SubSeq(Rows, first, last)
  BY <1>2 DEF ListPage, Slice
<1>5. first \in Int /\ last \in Int /\ last <= Len(Rows)
  BY <1>1, <1>3
<1>6. SubSeq(Rows, first, last) = [n \in 1 .. last - first + 1 |-> Rows[first + n - 1]]
  <2> DEFINE R == {Summary(tests[id]) : id \in Ids}
  <2>1. \A n \in 1 .. Len(order) : Rows[n] \in R
    BY RowsOK
  <2>2. \A n \in first .. last : n \in 1 .. Len(order)
    BY <1>1, <1>3
  <2> HIDE DEF first, last, R
  <2>3. \A n \in first .. last : Rows[n] \in R
    BY <2>1, <2>2
  <2>4. QED
    BY <1>5, <2>3, SubSeqIs
<1>7. 1 .. last - first + 1 = {i \in 1 .. limit : k * limit + i <= Len(order)}
  <2> DEFINE skip == k * limit
  <2>1. skip \in Nat
    BY <1>1
  <2>2. last = IF skip + limit > Len(order) THEN Len(order) ELSE skip + limit
    BY <1>3
  <2>3. first = skip + 1
    OBVIOUS
  <2> HIDE DEF first, last, skip
  <2>4. \A i \in Int : i \in 1 .. last - first + 1 <=> i \in 1 .. limit /\ skip + i <= Len(order)
    BY <1>1, <1>3, <2>1, <2>2, <2>3
  <2>5. 1 .. last - first + 1 = {i \in 1 .. limit : skip + i <= Len(order)}
    <3>1. last \in Int /\ first \in Int
      BY <1>1, <1>3, <2>1, <2>2, <2>3
    <3>2. QED
      BY <1>1, <2>4, <3>1
  <2>6. QED
    BY <2>5 DEF skip
<1>8. \A i \in 1 .. last - first + 1 : first + i - 1 = k * limit + i
  BY <1>1
<1>9. QED
  BY <1>4, <1>6, <1>7, <1>8

\* The page and the place on it of the n-th row.
LEMMA PlaceOf ==
  ASSUME NEW limit \in Nat \ {0}, NEW n \in Nat \ {0}
  PROVE \E k \in 0 .. n : \E i \in 1 .. limit : k * limit + i = n
<1> DEFINE k == (n - 1) \div limit
           r == (n - 1) % limit
<1>1. k \in Int /\ r \in 0 .. (limit - 1) /\ n - 1 = limit * k + r
  OBVIOUS
<1> HIDE DEF k, r
<1>2. k * limit + (r + 1) = n /\ r + 1 \in 1 .. limit
  BY <1>1
<1>3. k \in 0 .. n
  <2>1. k >= 0
    <3>1. k + 1 <= 0 => limit * (k + 1) <= 0
      BY <1>1
    <3>2. limit * (k + 1) = limit * k + limit
      BY <1>1
    <3>3. QED
      BY <1>1, <3>1, <3>2
  <2>2. k <= limit * k
    BY <1>1, <2>1
  <2>3. QED
    BY <1>1, <2>1, <2>2
<1>4. QED
  BY <1>2, <1>3

LEMMA KeysPage == ASSUME KeysOK, NEW limit \in 1 .. MaxLimit PROVE PagedBy(limit)
<1> DEFINE Page(k) == ListPage(k * limit, limit).rows
<1>0. limit \in Nat \ {0} /\ Len(order) \in Nat /\ DOMAIN order = 1 .. Len(order)
  <2>1. limit \in Nat \ {0}
    BY DEF MaxLimit
  <2>2. QED
    BY <2>1, RowsOK
<1>1. ASSUME NEW id \in Ids, Known(id)
      PROVE \E k \in 0 .. Len(order) : \E i \in DOMAIN Page(k) : Page(k)[i] = Summary(tests[id])
  <2>1. PICK m \in 1 .. Len(order) : order[m] = id
    BY <1>0, <1>1 DEF KeysOK
  <2> DEFINE n == Len(order) - m + 1
  <2>2. n \in 1 .. Len(order) /\ Len(order) - n + 1 = m /\ n \in Nat \ {0}
    BY <1>0
  <2>3. Rows[n] = Summary(tests[id])
    BY <2>1, <2>2, RowsOK
  <2> HIDE DEF n
  <2>4. PICK k \in 0 .. n, i \in 1 .. limit : k * limit + i = n
    BY <1>0, <2>2, PlaceOf
  <2>5. k \in Nat /\ k \in 0 .. Len(order) /\ i \in Int /\ k * limit + i <= Len(order)
    BY <1>0, <2>2, <2>4
  <2>6. i \in DOMAIN Page(k) /\ Page(k)[i] = Rows[n]
    BY <2>4, <2>5, PageRows
  <2>7. QED
    BY <2>3, <2>5, <2>6
<1>2. ASSUME NEW k \in 0 .. Len(order), NEW l \in 0 .. Len(order),
             NEW i \in DOMAIN Page(k), NEW j \in DOMAIN Page(l), k < l \/ (k = l /\ i < j)
      PROVE Newer(Page(k)[i].id, Page(l)[j].id)
  <2>1. k \in Nat /\ l \in Nat
    BY <1>0
  <2>2. i \in 1 .. limit /\ j \in 1 .. limit /\ i \in Int /\ j \in Int
    <3>1. /\ DOMAIN Page(k) = {x \in 1 .. limit : k * limit + x <= Len(order)}
          /\ DOMAIN Page(l) = {x \in 1 .. limit : l * limit + x <= Len(order)}
      BY <2>1, PageRows
    <3>2. i \in 1 .. limit /\ j \in 1 .. limit
      BY <3>1
    <3>3. QED
      BY <1>0, <3>2
  <2> DEFINE a == k * limit + i
             b == l * limit + j
  <2>3. a <= Len(order) /\ Page(k)[i] = Rows[a]
    BY <2>1, PageRows
  <2>4. b <= Len(order) /\ Page(l)[j] = Rows[b]
    BY <2>1, PageRows
  <2>5. k * limit \in Nat /\ l * limit \in Nat
    BY <1>0, <2>1
  <2>6. a < b
    <3>1. CASE k = l
      BY <1>2, <2>2, <2>5, <3>1
    <3>2. CASE k + 1 <= l
      <4>1. (k + 1) * limit <= l * limit
        BY <1>0, <2>1, <3>2
      <4>2. k * limit + limit <= l * limit
        BY <1>0, <2>1, <4>1
      <4>3. QED
        BY <1>0, <2>2, <2>5, <4>2
    <3>3. QED
      BY <1>2, <2>1, <3>1, <3>2
  <2>7. a \in 1 .. Len(order) /\ b \in 1 .. Len(order)
    BY <1>0, <2>2, <2>3, <2>4, <2>5
  <2> HIDE DEF a, b
  <2> DEFINE m == Len(order) - a + 1
             n == Len(order) - b + 1
  <2>8. m \in DOMAIN order /\ n \in DOMAIN order /\ n < m
    BY <1>0, <2>6, <2>7
  <2>9. Page(k)[i].id = order[m] /\ Page(l)[j].id = order[n]
    BY <2>3, <2>4, <2>7, RowsOK
  <2>10. order[m] # order[n]
    BY <1>0, <2>8 DEF KeysOK
  <2>11. QED
    BY <2>8, <2>9, <2>10 DEF Newer
<1>3. QED
  BY <1>1, <1>2 DEF PagedBy

\* Whatever was created, uploaded or asked for, the list of tests asked page by
\* page shows every test, none twice, and the one that entered the Map last first, for
\* every size of the page that the handler grants.
THEOREM EveryTestIsListed == ServerSpec => [](Paged /\ \A limit \in 1 .. MaxLimit : PagedBy(limit))
<1>1. KeysOK => \A limit \in 1 .. MaxLimit : PagedBy(limit)
  BY KeysPage
<1>2. (\A limit \in 1 .. MaxLimit : PagedBy(limit)) => Paged
  BY DEF Paged, MaxLimit
<1>3. QED
  BY <1>1, <1>2, KeysKept, PTL

===============================================================================

CONSTANTS
  TestIDs = {t1}
  Mails = {m1, m2, bad}
  Unparsable = {bad}
  Callers = {c1, c2}
  Handlers = {h1}
  Retention = 1
  DatabaseFails = TRUE
  None = None
SPECIFICATION FairSpec
INVARIANTS TypeOK OneReportPerTest ReportMatchesUnlessExpired
PROPERTIES AcceptedMeansStored CallsEnd ReportsExpire ImplementsLifecycle
